---- MODULE Spec2Model ----
(***************************************************************************)
(* Model of the image-scraper crawl engine (scraper.py): the ScrapeControl *)
(* flags, the robots.txt permission cache, the image URL cleaner, the      *)
(* download ladder and the scrape_site crawl loop with its event queue.    *)
(***************************************************************************)
EXTENDS Integers, Sequences, FiniteSets, Bags, TLC

(***************************************************************************)
(* Bounds of the model.                                                    *)
(***************************************************************************)
MaxQueryLen == 3
MaxPagesBound == 3
MaxDepthBound == 1
MaxImgsPerPage == 2
MaxLinksPerPage == 2
MaxRobotsQueries == 4
ImgMaxPages == 2
SiteMaxPages == 6
SiteMaxDepth == 3
MaxControlCalls == 4
LinksMaxPages == 6
LinksMaxDepth == 2
MaxTags == 2
MaxRuns == 2
MaxRequests == 2
MaxFinds == 1

(***************************************************************************)
(* URLs.  An image URL is the result of urlparse: a path, a query string   *)
(* (the sequence of its '&'-separated fields, each a raw key token and a   *)
(* raw value token; an empty value token stands for "k=" and for "k") and  *)
(* a fragment.  Tokens are the percent-encoded text as written in the URL. *)
(***************************************************************************)
RawKeys == {"w", "W", "%77", "maxWidth", "id", "a+b"}
RawVals == {"", "1", "2;3"}
Paths == {"/a.jpg", "/b_300x200.jpg"}
Frags == {"", "top"}
\* Image hosts; "[" stands for a bracketed netloc that urlparse rejects with
\* ValueError ("Invalid IPv6 URL").
ImgHosts == {"cdn", "["}

\* urllib.parse.unquote_plus, as parse_qs applies it to keys and values.
Unquote(t) ==
    CASE t = "%77" -> "w"
      [] t = "a+b" -> "a b"
      [] t = "2%3B3" -> "2;3"
      [] OTHER -> t

\* urllib.parse.quote_plus, as urlencode applies it to keys and values.
QuotePlus(t) ==
    CASE t = "a b" -> "a+b"
      [] t = "2;3" -> "2%3B3"
      [] OTHER -> t

\* str.lower on the decoded key.
Lower(k) ==
    CASE k = "W" -> "w"
      [] k = "maxWidth" -> "maxwidth"
      [] OTHER -> k

params_to_remove ==
    {"width", "height", "w", "h", "size", "quality", "q", "fit", "crop",
     "maxWidth", "maxHeight", "scale", "res", "resize", "fm", "format",
     "auto", "dpr"}

Field(k, v) == [k |-> k, v |-> v]

RECURSIVE SeqsUpTo(_, _)
SeqsUpTo(S, n) ==
    IF n = 0 THEN {<<>>}
    ELSE LET shorter == SeqsUpTo(S, n - 1)
         IN  shorter \cup {Append(s, x) : s \in {t \in shorter : Len(t) = n - 1}, x \in S}

\* Position of the dictionary entry with key k, 0 when absent.
KeyIndex(dict, k) ==
    IF \E i \in 1..Len(dict) : dict[i].k = k
    THEN CHOOSE i \in 1..Len(dict) : dict[i].k = k
    ELSE 0

\* urllib.parse.parse_qs(query): fields with a blank value are dropped
\* (keep_blank_values is False), key and value are decoded, and the values
\* of a repeated key are gathered under its first occurrence.
RECURSIVE ParseQsFrom(_, _, _)
ParseQsFrom(query, i, dict) ==
    IF i > Len(query) THEN dict
    ELSE LET f == query[i]
             k == Unquote(f.k)
             v == Unquote(f.v)
             at == KeyIndex(dict, k)
         IN  IF f.v = "" THEN ParseQsFrom(query, i + 1, dict)
             ELSE IF at = 0
                  THEN ParseQsFrom(query, i + 1, Append(dict, [k |-> k, vs |-> <<v>>]))
                  ELSE ParseQsFrom(query, i + 1,
                                   [dict EXCEPT ![at].vs = Append(@, v)])

ParseQs(query) == ParseQsFrom(query, 1, <<>>)

\* A variant that drops only the first resize/quality parameter it meets.
RemoveFirstParam(dict) ==
    LET hits == {i \in 1..Len(dict) : Lower(dict[i].k) \in params_to_remove}
    IN  IF hits = {} THEN dict
        ELSE LET first == CHOOSE i \in hits : \A j \in hits : i <= j
             IN  SubSeq(dict, 1, first - 1) \o SubSeq(dict, first + 1, Len(dict))

\* The dict comprehension that drops the resize/quality parameters.
RemoveParams(dict) ==
    SelectSeq(dict, LAMBDA e : Lower(e.k) \notin params_to_remove)

\* urlencode(dict, doseq=True): one field per value, keys and values quoted.
RECURSIVE UrlEncodeFrom(_, _, _)
UrlEncodeFrom(dict, i, out) ==
    IF i > Len(dict) THEN out
    ELSE LET e == dict[i]
             fields == [j \in 1..Len(e.vs) |->
                           Field(QuotePlus(e.k), QuotePlus(e.vs[j]))]
         IN  UrlEncodeFrom(dict, i + 1, out \o fields)

UrlEncode(dict) == UrlEncodeFrom(dict, 1, <<>>)

\* urlparse(url) raises for this URL.
UrlParseRaises(url) == url.host = "["

\* clean_image_url(url): the cleaned URL, or the input itself when parsing
\* raised.
clean_image_url(url) ==
    IF UrlParseRaises(url) THEN url
    ELSE LET query_params == RemoveParams(ParseQs(url.query))
             new_query == UrlEncode(query_params)
         IN  [host |-> url.host, path |-> url.path, query |-> new_query,
              frag |-> url.frag]

(***************************************************************************)
(* The download ladder of try_get_high_res_image.                          *)
(***************************************************************************)
ImgUrl(path, query, frag) ==
    [host |-> "cdn", path |-> path, query |-> query, frag |-> frag]

\* size_pattern.search(path): the path ends in _<digits>x<digits>.<ext>.
HasSizeSuffix(path) == path \in {"/b_300x200.jpg", "/v_10x10.svg"}

\* size_pattern.sub(r'\1', path).
StripSizeSuffix(path) ==
    CASE path = "/b_300x200.jpg" -> "/b.jpg"
      [] path = "/v_10x10.svg" -> "/v.svg"
      [] OTHER -> path

AppendNew(list, u) ==
    IF \E i \in 1..Len(list) : list[i] = u THEN list ELSE Append(list, u)

\* cleaned_url.split('?')[0] followed by "?<k>=<v>": path kept, query
\* replaced, fragment lost.
Variant(cleaned, k, v) ==
    [host |-> cleaned.host, path |-> cleaned.path, query |-> <<Field(k, v)>>,
     frag |-> ""]

\* A variant that puts the URL it was given first.
urls_to_try_original_first(url) == AppendNew(<<url>>, clean_image_url(url))

\* The list urls_to_try built by try_get_high_res_image(session, url).
urls_to_try(url) ==
    LET cleaned_url == clean_image_url(url)
        l1 == <<cleaned_url>>
        l2 == IF HasSizeSuffix(cleaned_url.path)
              THEN AppendNew(l1, [cleaned_url EXCEPT !.path = StripSizeSuffix(@)])
              ELSE l1
        l3 == IF cleaned_url.query # <<>>
              THEN AppendNew(AppendNew(AppendNew(l2,
                       Variant(cleaned_url, "quality", "100")),
                       Variant(cleaned_url, "w", "2048")),
                       Variant(cleaned_url, "size", "large"))
              ELSE l2
    IN  AppendNew(l3, url)

\* The requests.Session object of the run.
Session == [obj |-> "requests.Session"]

IsUrl(x) == "path" \in DOMAIN x

\* try_get_high_res_image(session, url) raises before any request: url is
\* not a string (clean_image_url hands it back, urlparse at line 135 raises
\* AttributeError) or its netloc is rejected by urlparse.
TryGetRaises(session, url) == ~IsUrl(url) \/ UrlParseRaises(url)

(***************************************************************************)
(* Page side of the crawl: image candidates, links, page URLs.             *)
(***************************************************************************)
\* COMMON_ICON_PATTERNS.search(abs_img_url).
COMMON_ICON_PATTERNS(url) == url.path = "/logo.png"

\* abs_img_url.lower().endswith('.svg') or 'svg' in abs_img_url.lower().
IsSvg(url) == url.path \in {"/v.svg", "/v_10x10.svg"}

\* os.path.basename(urlparse(cleaned_img_url).path).
Basename(url) == url.path

PageUrl(host, path, frag) == [host |-> host, path |-> path, frag |-> frag]

\* urlunparse with the fragment replaced by ''.
StripFragment(u) == [u EXCEPT !.frag = ""]

\* The file-download extension test on the link path.
IsFileDownload(u) == u.path = "/d.pdf"

\* parsed.netloc.
Netloc(u) == u.host

Link(url, text, rel, class) ==
    [url |-> url, text |-> text, rel |-> rel, class |-> class]

\* The pagination heuristic on link text, rel and class.
is_pagination(link) ==
    \/ link.text \in {"next", "older >", ">>"}
    \/ link.rel = "next"
    \/ link.class \in {"page-link", "pagination", "next-btn"}

(***************************************************************************)
(* State.                                                                  *)
(***************************************************************************)
VARIABLES
    cfg,                      \* arguments of scrape_site
    env,                      \* what the site and the network can answer
    pc,                       \* position of the crawl thread in scrape_site
    phase,                    \* "browser" or "crawl": caller of wait_if_paused
    raised,                   \* an exception is propagating out of the loop
    urls_to_visit,            \* deque of (url, depth)
    visited_urls,
    found_image_srcs,
    downloaded_image_hashes,
    pages_crawled,
    total_images_downloaded,
    files,                    \* files of the domain output directory
    image_update_queue,       \* items put on the queue, oldest first
    robot_parsers,            \* module-level cache of can_fetch
    paused,                   \* ScrapeControl._paused
    stopped,                  \* ScrapeControl._stopped
    current,                  \* (current_url, current_depth)
    interactive_images,       \* browser images not yet iterated
    imgs_done,                \* image tags of the current page handled
    links_done,               \* anchors of the current page handled
    page_status,              \* what session.get of the current page gave, "" outside the loop body
    seed_links,               \* crawlable anchors of the first page, in order of first appearance
    fetched,                  \* page URLs passed to session.get, in order
    dequeued,                 \* page URLs counted by pages_crawled, in order
    browser_fetched,          \* URLs loaded by the browser provider
    attempted,                \* URLs passed to try_get_high_res_image by the loop
    last_image,               \* what became of the latest image tag with a usable URL
    robots_reads,             \* hosts whose robots.txt was read, in order
    probe                     \* inputs and outputs of directly called functions

vars ==
    <<cfg, env, pc, phase, raised, urls_to_visit, visited_urls,
      found_image_srcs, downloaded_image_hashes, pages_crawled,
      total_images_downloaded, files, image_update_queue, robot_parsers,
      paused, stopped, current, interactive_images, imgs_done, links_done,
      page_status, seed_links, fetched, dequeued, browser_fetched, attempted,
      last_image, robots_reads, probe>>

crawlVars ==
    <<urls_to_visit, visited_urls, pages_crawled, current, fetched, dequeued>>
imageVars ==
    <<found_image_srcs, downloaded_image_hashes, total_images_downloaded,
      files, attempted, last_image>>
pageVars == <<imgs_done, links_done, page_status, seed_links>>
controlVars == <<paused, stopped>>
robotVars == <<robot_parsers, robots_reads>>
constVars == <<cfg, env, probe>>

Entry(url, d) == [url |-> url, depth |-> d]
NoEntry == Entry(PageUrl("", "", ""), 0)

\* Items of the queue: a served image path, or the end signal None.
ImageEvent(name) == [kind |-> "image", name |-> name]
EndSignal == [kind |-> "None", name |-> [base |-> "", n |-> 0]]

\* A file of the output directory: base name, collision counter (0 when the
\* name carries no suffix) and the digest of its content.
\* Lines 390-391: f"{name}_{counter}{ext}" is a string, so a.jpg with
\* counter 1 and a_1.jpg without a counter are one and the same name.
FileName(base, n) ==
    IF base = "/a.jpg" /\ n = 1 THEN [base |-> "/a_1.jpg", n |-> 0]
    ELSE [base |-> base, n |-> n]
File(name, hash) == [name |-> name, hash |-> hash]
FileNames == {f.name : f \in files}

NoProbe == [op |-> "none"]

(***************************************************************************)
(* ScrapeControl.                                                          *)
(***************************************************************************)
\* ScrapeControl.pause
pause ==
    /\ paused' = TRUE
    /\ UNCHANGED stopped

\* ScrapeControl.resume
resume ==
    /\ paused' = FALSE
    /\ UNCHANGED stopped

\* A variant that forgets the stop flag.
stop_without_flag ==
    /\ paused' = FALSE
    /\ UNCHANGED stopped

\* ScrapeControl.stop
stop ==
    /\ stopped' = TRUE
    /\ paused' = FALSE

(***************************************************************************)
(* can_fetch and the robots cache.                                         *)
(***************************************************************************)
\* A cached entry: a RobotFileParser with the paths it disallows, or None.
Parser(disallowed) == [parser |-> TRUE, disallowed |-> disallowed]
FailedParser == [parser |-> FALSE, disallowed |-> {}]

Cache(parsers, base_url, entry) ==
    [b \in DOMAIN parsers \cup {base_url} |->
        IF b = base_url THEN entry ELSE parsers[b]]

\* The answer of can_fetch(url) from the cache: None allows everything.
CachedAnswer(parsers, url) ==
    LET parser == parsers[Netloc(url)]
    IN  IF parser.parser THEN url.path \notin parser.disallowed ELSE TRUE

\* A variant that caches nothing when the robots.txt read raises.
can_fetch_uncached_failure(url, readOutcome) ==
    LET base_url == Netloc(url)
    IN  IF base_url \notin DOMAIN robot_parsers
        THEN IF readOutcome.raises
             THEN [parsers |-> robot_parsers,
                   reads |-> Append(robots_reads, base_url),
                   answer |-> TRUE]
             ELSE LET parsers == Cache(robot_parsers, base_url,
                                       Parser(readOutcome.disallowed))
                  IN  [parsers |-> parsers,
                       reads |-> Append(robots_reads, base_url),
                       answer |-> CachedAnswer(parsers, url)]
        ELSE [parsers |-> robot_parsers, reads |-> robots_reads,
              answer |-> CachedAnswer(robot_parsers, url)]

\* can_fetch(url): readOutcome is what parser.read() does if it is called,
\* "raise" or the parsed rules.  Gives the new cache, the hosts read and
\* the answer.
can_fetch(url, readOutcome) ==
    LET base_url == Netloc(url)
    IN  IF base_url \notin DOMAIN robot_parsers
        THEN IF readOutcome.raises
             THEN [parsers |-> Cache(robot_parsers, base_url, FailedParser),
                   reads |-> Append(robots_reads, base_url),
                   answer |-> TRUE]
             ELSE LET parsers == Cache(robot_parsers, base_url,
                                       Parser(readOutcome.disallowed))
                  IN  [parsers |-> parsers,
                       reads |-> Append(robots_reads, base_url),
                       answer |-> CachedAnswer(parsers, url)]
        ELSE [parsers |-> robot_parsers, reads |-> robots_reads,
              answer |-> CachedAnswer(robot_parsers, url)]

ReadRaises == [raises |-> TRUE, disallowed |-> {}]
ReadRules(disallowed) == [raises |-> FALSE, disallowed |-> disallowed]

(***************************************************************************)
(* scrape_site.                                                            *)
(***************************************************************************)
base_domain == Netloc(cfg.start_url)

Range(seq) == {seq[i] : i \in 1..Len(seq)}

\* Lines 457-468: the anchor leads to a page of the seed's host that is not
\* a file download and not the seed itself, which is visited from the start.
Crawlable(link) ==
    /\ Netloc(link.url) = base_domain
    /\ ~IsFileDownload(StripFragment(link.url))
    /\ StripFragment(link.url) # cfg.start_url

\* A variant that puts every item twice.
PutTwice(item) ==
    image_update_queue' =
        IF cfg.has_queue THEN Append(Append(image_update_queue, item), item)
        ELSE image_update_queue

\* Lines 430-436 and 503-505: image_update_queue.put(item) when the caller
\* gave a queue.
Put(item) ==
    image_update_queue' =
        IF cfg.has_queue THEN Append(image_update_queue, item)
        ELSE image_update_queue

\* Lines 229-234: the browser provider is asked for the images of the seed
\* page when use_browser is set.  It loads the page itself (page.goto),
\* unless Playwright is missing, and returns a set of image URLs.
StartRun ==
    /\ pc = "start"
    /\ IF cfg.use_browser
       THEN \E loaded \in BOOLEAN :
            \E imgs \in (IF loaded THEN SUBSET env.browser_imgs ELSE {{}}) :
               /\ interactive_images' = imgs
               /\ browser_fetched' =
                      IF loaded THEN Append(browser_fetched, cfg.start_url)
                      ELSE browser_fetched
               /\ pc' = "bfor"
               /\ phase' = "browser"
       ELSE /\ pc' = "loop"
            /\ phase' = "crawl"
            /\ UNCHANGED <<interactive_images, browser_fetched>>
    /\ UNCHANGED <<crawlVars, imageVars, pageVars, controlVars, robotVars,
                   constVars, raised, image_update_queue>>

\* Line 237: the for statement over interactive_images.
BrowserFor ==
    /\ pc = "bfor"
    /\ IF interactive_images = {}
       THEN pc' = "loop" /\ phase' = "crawl"
       ELSE pc' = "wait" /\ phase' = "browser"
    /\ UNCHANGED <<crawlVars, imageVars, pageVars, controlVars, robotVars,
                   constVars, raised, image_update_queue, interactive_images,
                   browser_fetched>>

\* Lines 242-280: one browser image.  The call at line 247 passes
\* (img_url, session) to try_get_high_res_image(session, url); were it to
\* return a response, get_image_hash(response) raises TypeError.  Either
\* exception ends the browser phase at line 278.
BrowserImage ==
    /\ pc = "bimg"
    /\ \E img_url \in interactive_images :
          /\ interactive_images' = interactive_images \ {img_url}
          /\ IF img_url \in found_image_srcs
             THEN /\ pc' = "bfor"
                  /\ UNCHANGED found_image_srcs
             ELSE /\ found_image_srcs' = found_image_srcs \cup {img_url}
                  /\ IF TryGetRaises(img_url, Session)
                     THEN pc' = "loop"
                     ELSE \E success \in BOOLEAN :
                             pc' = IF success THEN "loop" ELSE "bfor"
    /\ phase' = IF pc' = "loop" THEN "crawl" ELSE "browser"
    /\ UNCHANGED <<crawlVars, downloaded_image_hashes,
                   total_images_downloaded, files, attempted, last_image,
                   pageVars, controlVars, robotVars, constVars, raised,
                   image_update_queue, browser_fetched>>

\* A variant of the while condition without the page budget.
KeepCrawlingNoBudget == urls_to_visit # <<>>

\* Line 283: the while condition.
KeepCrawling == urls_to_visit # <<>> /\ pages_crawled < cfg.max_pages

LoopTest ==
    /\ pc = "loop"
    /\ pc' = IF KeepCrawling THEN "wait" ELSE "finally"
    /\ page_status' = ""
    /\ UNCHANGED <<crawlVars, imageVars, imgs_done, links_done, seed_links,
                   controlVars, robotVars,
                   constVars, raised, image_update_queue, interactive_images,
                   browser_fetched, phase>>

\* A variant that does not wait.
WaitIfPausedIgnored ==
    /\ pc = "wait"
    /\ pc' = "stopchk"
    /\ UNCHANGED <<crawlVars, imageVars, pageVars, controlVars, robotVars,
                   constVars, raised, image_update_queue, interactive_images,
                   browser_fetched, phase>>

\* wait_if_paused, line 63: one read of is_paused().
WaitIfPaused ==
    /\ pc = "wait"
    /\ pc' = IF paused THEN "sleep" ELSE "stopchk"
    /\ UNCHANGED <<crawlVars, imageVars, pageVars, controlVars, robotVars,
                   constVars, raised, image_update_queue, interactive_images,
                   browser_fetched, phase>>

\* wait_if_paused, line 64: time.sleep(0.5).
Sleep ==
    /\ pc = "sleep"
    /\ pc' = "wait"
    /\ UNCHANGED <<crawlVars, imageVars, pageVars, controlVars, robotVars,
                   constVars, raised, image_update_queue, interactive_images,
                   browser_fetched, phase>>

\* A variant that puts the end signal as soon as the stop is seen.
StopCheckSignalling ==
    /\ pc = "stopchk"
    /\ pc' = IF phase = "browser"
             THEN (IF stopped THEN "loop" ELSE "bimg")
             ELSE (IF stopped THEN "finally" ELSE "pop")
    /\ phase' = IF pc' = "bimg" THEN "browser" ELSE "crawl"
    /\ IF stopped THEN Put(EndSignal) ELSE UNCHANGED image_update_queue
    /\ UNCHANGED <<crawlVars, imageVars, pageVars, controlVars, robotVars,
                   constVars, raised, interactive_images, browser_fetched>>

\* wait_if_paused, line 65: return is_stopped(); the caller breaks out of
\* its loop on True (lines 238-240 and 286-288).
StopCheck ==
    /\ pc = "stopchk"
    /\ pc' = IF phase = "browser"
             THEN (IF stopped THEN "loop" ELSE "bimg")
             ELSE (IF stopped THEN "finally" ELSE "pop")
    /\ phase' = IF pc' = "bimg" THEN "browser" ELSE "crawl"
    /\ UNCHANGED <<crawlVars, imageVars, pageVars, controlVars, robotVars,
                   constVars, raised, image_update_queue, interactive_images,
                   browser_fetched>>

\* A variant that takes the entry from the back of the deque.
pop_right(q) == [item |-> q[Len(q)], rest |-> SubSeq(q, 1, Len(q) - 1)]

\* Line 290: deque.popleft().
popleft(q) == [item |-> Head(q), rest |-> Tail(q)]

\* A variant that passes over the seed as well.
IsRevisitSeedToo(head) == head.url \in visited_urls

\* Line 293: the entry was visited before and is not the seed.
IsRevisit(head) == head.url \in visited_urls /\ head.url # cfg.start_url

\* A variant that reads the head of the deque and leaves it there.
PopPeeking ==
    /\ pc = "pop"
    /\ LET head == popleft(urls_to_visit).item
       IN  /\ UNCHANGED urls_to_visit
           /\ current' = head
           /\ IF IsRevisit(head)
              THEN /\ pc' = "loop"
                   /\ UNCHANGED <<visited_urls, pages_crawled, dequeued>>
              ELSE /\ visited_urls' = visited_urls \cup {head.url}
                   /\ pages_crawled' = pages_crawled + 1
                   /\ dequeued' = Append(dequeued, head.url)
                   /\ pc' = "robots"
    /\ UNCHANGED <<fetched, imageVars, pageVars, controlVars, robotVars,
                   constVars, raised, image_update_queue, interactive_images,
                   browser_fetched, phase>>

\* Lines 290-299: popleft, the visited test, the page counter.
Pop ==
    /\ pc = "pop"
    /\ LET head == popleft(urls_to_visit).item
       IN  /\ urls_to_visit' = popleft(urls_to_visit).rest
           /\ current' = head
           /\ IF IsRevisit(head)
              THEN /\ pc' = "loop"
                   /\ UNCHANGED <<visited_urls, pages_crawled, dequeued>>
              ELSE /\ visited_urls' = visited_urls \cup {head.url}
                   /\ pages_crawled' = pages_crawled + 1
                   /\ dequeued' = Append(dequeued, head.url)
                   /\ pc' = "robots"
    /\ UNCHANGED <<fetched, imageVars, pageVars, controlVars, robotVars,
                   constVars, raised, image_update_queue, interactive_images,
                   browser_fetched, phase>>

\* A variant that fetches whatever the answer.
AfterRobotsIgnored(answer) == "fetch"

\* Lines 302-304: a page that may not be fetched is passed over (continue).
AfterRobots(answer) == IF answer THEN "fetch" ELSE "loop"

\* Lines 301-304: the robots check of the current page.
RobotsCheck ==
    /\ pc = "robots"
    /\ \E readOutcome \in {ReadRaises} \cup {ReadRules(r) : r \in env.rules} :
          LET r == can_fetch(current.url, readOutcome)
          IN  /\ robot_parsers' = r.parsers
              /\ robots_reads' = r.reads
              /\ pc' = AfterRobots(r.answer)
    /\ UNCHANGED <<crawlVars, imageVars, pageVars, controlVars, constVars,
                   raised, image_update_queue, interactive_images,
                   browser_fetched, phase>>

\* An exception raised in the loop body outside the inner try (lines
\* 284-304): it leaves the while loop through the finally clause.
LoopBodyRaises ==
    /\ pc = "robots"
    /\ raised' = TRUE
    /\ pc' = "finally"
    /\ UNCHANGED <<crawlVars, imageVars, pageVars, controlVars, robotVars,
                   constVars, image_update_queue, interactive_images,
                   browser_fetched, phase>>

\* A variant that parses whatever the response carries.
IsParsedAnyContent(outcome) == outcome \in {"html", "3xx-html", "non-html"}

\* Lines 307-315: the response is parsed when session.get returned,
\* raise_for_status did not raise (it raises for 4xx and 5xx only) and the
\* content type holds 'html'.
IsParsed(outcome) == outcome \in {"html", "3xx-html"}

\* A variant in which a request exception leaves the loop.
AfterFetchAborting(outcome) ==
    IF IsParsed(outcome) THEN "images"
    ELSE IF outcome = "RequestException" THEN "finally" ELSE "loop"

\* Lines 306-317 and 497-500: where the loop body goes after session.get.
\* A request exception, a non-2xx status and a non-HTML content type all
\* skip the page.
AfterFetch(outcome) == IF IsParsed(outcome) THEN "images" ELSE "loop"

\* Lines 306-317: session.get of the page.
FetchPage ==
    /\ pc = "fetch"
    /\ fetched' = Append(fetched, current.url)
    /\ \E outcome \in env.page_outcomes :
          /\ page_status' = outcome
          /\ pc' = AfterFetch(outcome)
    /\ imgs_done' = 0
    /\ links_done' = 0
    /\ UNCHANGED <<urls_to_visit, visited_urls, pages_crawled, current,
                   dequeued, seed_links, imageVars, controlVars, robotVars,
                   constVars, raised, image_update_queue, interactive_images,
                   browser_fetched, phase>>

\* An image tag of the page: no usable src (absent, or a data: URI), or
\* the absolute URL that urljoin makes of its src.
NoSrc == [src |-> FALSE, url |-> ImgUrl("", <<>>, "")]
Src(url) == [src |-> TRUE, url |-> url]

\* A variant that takes the name as the URL gives it.
UniqueNameUnchecked(base) == FileName(base, 0)

\* Lines 384-392: the first unused name base, base_1, base_2, ...
UniqueName(base) ==
    LET free(n) == FileName(base, n) \notin FileNames
    IN  FileName(base,
                 CHOOSE n \in 0..Cardinality(files) :
                     free(n) /\ \A m \in 0..(n - 1) : ~free(m))

\* What the network and the disk do for one image: every variant of the
\* ladder fails, or variant number k is the first to answer and delivers
\* content with the given digest, which the disk accepts or not.
DownloadOutcomes(ladder) ==
    IF env.reliable
    THEN \* every request succeeds, every write succeeds, and each path
         \* serves content of its own
         {[k |-> 1, hash |-> ladder[1].path, written |-> TRUE]}
    ELSE {[k |-> 0, hash |-> "", written |-> FALSE]}
         \cup {[k |-> k, hash |-> h, written |-> w] :
                  k \in 1..Len(ladder), h \in env.hashes, w \in BOOLEAN}

\* A variant without the processed-URL test.
AlreadyProcessedNever(cleaned_img_url) == FALSE

\* Line 357: the canonical URL was already processed in this run.
AlreadyProcessed(cleaned_img_url) == cleaned_img_url \in found_image_srcs

\* A variant without the digest test.
IsDuplicateHashNever(img_hash) == FALSE

\* Line 398: content with this digest was already saved in this run.
IsDuplicateHash(img_hash) == img_hash \in downloaded_image_hashes

Logged(url, result) == [url |-> url, result |-> result]
NoImage == Logged(ImgUrl("", <<>>, ""), "")

\* The resource session.get(current_url) asks the server for: the fragment
\* is not part of the request.
Served == StripFragment(current.url)

\* The page is one of a site whose content is fixed.
OnSite == Served \in DOMAIN env.site

\* soup.find_all(['img', 'source']): the tags the for statement at line 321
\* can meet next, the next tag of a fixed page or any tag of the universe.
NextTags ==
    IF OnSite
    THEN LET tags == env.site[Served].imgs
         IN  IF imgs_done < Len(tags) THEN {tags[imgs_done + 1]} ELSE {}
    ELSE IF imgs_done < MaxImgsPerPage THEN env.imgs ELSE {}

\* soup.find_all('a', href=True): the anchors the for statement at line 450
\* can meet next.
NextAnchors ==
    IF OnSite
    THEN LET anchors == env.site[Served].links
         IN  IF links_done < Len(anchors) THEN {anchors[links_done + 1]} ELSE {}
    ELSE IF links_done < MaxLinksPerPage THEN env.links ELSE {}

\* A variant without the icon filter.
IconSkippedNever(abs_img_url) == FALSE

\* Lines 349-351: a URL that matches the icon pattern is passed over.
IconSkipped(abs_img_url) == COMMON_ICON_PATTERNS(abs_img_url)

\* Lines 368-436: what the loop makes of the answer o of the download
\* ladder for cleaned_img_url: nothing when every variant failed, when the
\* digest is known or when the write fails; else a file, its digest, the
\* counter and the event.  open(img_save_path, 'wb') replaces whatever file
\* has that name.
StoreImage(cleaned_img_url, o) ==
    LET img_filename == UniqueName(Basename(cleaned_img_url))
        result == IF o.k = 0 THEN "failed"
                  ELSE IF IsDuplicateHash(o.hash) THEN "duplicate"
                  ELSE IF ~o.written THEN "write failed"
                  ELSE "saved"
    IN  /\ last_image' = Logged(cleaned_img_url, result)
        /\ IF result # "saved"
           THEN UNCHANGED <<downloaded_image_hashes, total_images_downloaded,
                            files, image_update_queue>>
           ELSE /\ files' = {f \in files : f.name # img_filename}
                              \cup {File(img_filename, o.hash)}
                /\ downloaded_image_hashes' =
                       downloaded_image_hashes \cup {o.hash}
                /\ total_images_downloaded' = total_images_downloaded + 1
                /\ Put(ImageEvent(img_filename))

\* Lines 321-441: one img/source tag of the current page.
ProcessImage ==
    /\ pc = "images"
    /\ imgs_done' = imgs_done + 1
    /\ \E tag \in NextTags :
          LET abs_img_url == tag.url
              is_svg == IsSvg(abs_img_url)
              cleaned_img_url == IF is_svg THEN abs_img_url
                                 ELSE clean_image_url(abs_img_url)
              skip == /\ pc' = "images"
                      /\ UNCHANGED <<imageVars, image_update_queue>>
          IN  IF ~tag.src THEN skip
              ELSE IF UrlParseRaises(abs_img_url)
              THEN \* urljoin raises ValueError: caught at line 499
                   /\ pc' = "loop"
                   /\ UNCHANGED <<imageVars, image_update_queue>>
              ELSE IF IconSkipped(abs_img_url) THEN skip
              ELSE IF AlreadyProcessed(cleaned_img_url)
              THEN /\ pc' = "images"
                   /\ last_image' =
                          Logged(cleaned_img_url, "already processed")
                   /\ UNCHANGED <<found_image_srcs, downloaded_image_hashes,
                                  total_images_downloaded, files, attempted,
                                  image_update_queue>>
              ELSE /\ found_image_srcs' = found_image_srcs \cup {cleaned_img_url}
                   /\ attempted' = attempted (+) SetToBag({cleaned_img_url})
                   /\ pc' = "images"
                   /\ \E o \in DownloadOutcomes(urls_to_try(cleaned_img_url)) :
                         StoreImage(cleaned_img_url, o)
    /\ UNCHANGED <<crawlVars, links_done, page_status, seed_links, controlVars,
                   robotVars, constVars, raised, interactive_images,
                   browser_fetched, phase>>

\* A variant whose depth test is off by one.
FollowLinksOffByOne == current.depth <= cfg.depth

\* Line 447: links are followed only below the depth limit.
FollowLinks == current.depth < cfg.depth

\* Lines 443-448: no image tag is left.
EndImages ==
    /\ pc = "images"
    /\ OnSite => NextTags = {}
    /\ pc' = IF FollowLinks THEN "links" ELSE "loop"
    /\ UNCHANGED <<crawlVars, imageVars, pageVars, controlVars, robotVars,
                   constVars, raised, image_update_queue, interactive_images,
                   browser_fetched, phase>>

\* A variant of the budget test that is off by one.
HasRoomOffByOne ==
    Len(urls_to_visit) + Cardinality(visited_urls) <= cfg.max_pages

\* Line 471: len(urls_to_visit) + len(visited_urls) < max_pages.
HasRoom == Len(urls_to_visit) + Cardinality(visited_urls) < cfg.max_pages

\* A variant without the already-queued test.
AdmittedIgnoringQueue(abs_link) ==
    /\ abs_link \notin visited_urls
    /\ HasRoom

\* Lines 468-471: the link is new and the page budget has room for it.
Admitted(abs_link) ==
    LET already_queued ==
            \E i \in 1..Len(urls_to_visit) : urls_to_visit[i].url = abs_link
    IN  /\ abs_link \notin visited_urls
        /\ ~already_queued
        /\ HasRoom

\* A variant that ignores the follow_pagination argument.
ToFrontIgnoringFlag(link) == is_pagination(link)

\* Line 481: follow_pagination and is_pagination.
ToFront(link) == cfg.follow_pagination /\ is_pagination(link)

\* A variant that appends every link at the back.
PlacedAtBack(link, entry) == Append(urls_to_visit, entry)

\* Lines 481-486: pagination links go to the front, the others to the back.
Placed(link, entry) ==
    IF ToFront(link)
    THEN <<entry>> \o urls_to_visit
    ELSE Append(urls_to_visit, entry)

\* A variant that hands every host on to the frontier.
SameDomainAny(link) == TRUE

\* Line 457: parsed_link.netloc == base_domain.
SameDomain(link) == Netloc(link.url) = base_domain

\* A variant that gives a link the depth of its page.
next_depth_of_page == current.depth

\* Line 448: next_depth = current_depth + 1.
next_depth == current.depth + 1

\* Lines 450-486: one anchor of the current page.
ProcessLink ==
    /\ pc = "links"
    /\ links_done' = links_done + 1
    /\ \E link \in NextAnchors :
          LET abs_link == StripFragment(link.url)
          IN  /\ seed_links' = IF /\ current.url = cfg.start_url
                                  /\ Crawlable(link)
                                  /\ link \notin Range(seed_links)
                               THEN Append(seed_links, link) ELSE seed_links
              /\ IF /\ SameDomain(link)
                    /\ ~IsFileDownload(abs_link)
                    /\ Admitted(abs_link)
                 THEN urls_to_visit' = Placed(link, Entry(abs_link, next_depth))
                 ELSE UNCHANGED urls_to_visit
    /\ pc' = "links"
    /\ UNCHANGED <<visited_urls, pages_crawled, current, fetched, dequeued,
                   imageVars, imgs_done, page_status, controlVars, robotVars, constVars,
                   raised, image_update_queue, interactive_images,
                   browser_fetched, phase>>

\* No anchor is left: back to the while condition.
EndLinks ==
    /\ pc = "links"
    /\ OnSite => NextAnchors = {}
    /\ pc' = "loop"
    /\ UNCHANGED <<crawlVars, imageVars, pageVars, controlVars, robotVars,
                   constVars, raised, image_update_queue, interactive_images,
                   browser_fetched, phase>>

\* A variant that puts the end signal after the loop instead of in a
\* finally clause: an exception skips it.
FinallyAfterLoop ==
    /\ pc = "finally"
    /\ IF raised THEN UNCHANGED image_update_queue ELSE Put(EndSignal)
    /\ pc' = IF raised THEN "raised" ELSE "done"
    /\ UNCHANGED <<crawlVars, imageVars, pageVars, controlVars, robotVars,
                   constVars, raised, interactive_images, browser_fetched,
                   phase>>

\* Lines 502-509: the finally clause puts the end signal; the function then
\* returns (domain_output_path, total_images_downloaded) unless an
\* exception is propagating.
Finally ==
    /\ pc = "finally"
    /\ Put(EndSignal)
    /\ pc' = IF raised THEN "raised" ELSE "done"
    /\ UNCHANGED <<crawlVars, imageVars, pageVars, controlVars, robotVars,
                   constVars, raised, interactive_images, browser_fetched,
                   phase>>

\* Calls of the control object from another thread while the run is on.
Control ==
    /\ pc \notin {"idle", "done", "raised"}
    /\ pause \/ resume \/ stop
    /\ UNCHANGED <<crawlVars, imageVars, pageVars, robotVars, constVars, pc,
                   phase, raised, image_update_queue, interactive_images,
                   browser_fetched>>

(***************************************************************************)
(* The crawl specification.                                                *)
(***************************************************************************)
Seed == PageUrl("a", "/", "")

LinkCands ==
    {Link(PageUrl("a", "/n", ""), "next", "", ""),
     Link(PageUrl("a", "/o", ""), "about", "", ""),
     Link(PageUrl("a", "/", "top"), "home", "", ""),
     Link(PageUrl("b", "/n", ""), "partner", "", ""),
     Link(PageUrl("a", "/d.pdf", ""), "manual", "", "")}

ImgCands ==
    {Src(ImgUrl("/a.jpg", <<>>, "")),
     Src(ImgUrl("/a.jpg", <<Field("w", "1")>>, ""))}

RichImgCands ==
    {Src(ImgUrl("/a.jpg", <<>>, "")),
     Src(ImgUrl("/a.jpg", <<Field("w", "1")>>, "")),
     Src(ImgUrl("/b_300x200.jpg", <<Field("id", "1")>>, "")),
     Src(ImgUrl("/logo.png", <<>>, "")),
     Src(ImgUrl("/v.svg", <<Field("w", "1")>>, "")),
     Src([ImgUrl("/a.jpg", <<>>, "") EXCEPT !.host = "["]),
     NoSrc}

\* What session.get and raise_for_status can make of a page: an exception
\* of the transport, a 4xx or 5xx status (HTTPError), a final 3xx response
\* (one that requests does not follow, such as 300 or 304) with an HTML
\* body, a response that is not HTML, a 2xx HTML page.
PageOutcomes ==
    {"RequestException", "HTTPError", "3xx-html", "non-html", "html"}

CrawlEnv ==
    [links |-> LinkCands, imgs |-> ImgCands, browser_imgs |-> {ImgUrl("/a.jpg", <<>>, "")},
     hashes |-> {"h1"}, rules |-> {{}, {"/"}, {"/n"}},
     site |-> <<>>, page_outcomes |-> PageOutcomes, reliable |-> FALSE]

ImageEnv ==
    [links |-> {Link(PageUrl("a", "/n", ""), "next", "", "")},
     imgs |-> RichImgCands,
     browser_imgs |-> {ImgUrl("/a.jpg", <<>>, "")},
     hashes |-> {"h1", "h2"}, rules |-> {{}, {"/"}},
     site |-> <<>>, page_outcomes |-> PageOutcomes, reliable |-> FALSE]

ImageConfigs ==
    [start_url : {Seed}, max_pages : {ImgMaxPages}, depth : {1},
     follow_pagination : {TRUE}, use_browser : BOOLEAN, has_queue : BOOLEAN]

Configs(seeds) ==
    [start_url : seeds, max_pages : 0..MaxPagesBound, depth : 0..MaxDepthBound,
     follow_pagination : BOOLEAN, use_browser : BOOLEAN, has_queue : {TRUE}]

RunState(c, e, at) ==
    /\ cfg = c
    /\ env = e
    /\ pc = at
    /\ phase = "crawl"
    /\ raised = FALSE
    /\ urls_to_visit = <<Entry(c.start_url, 0)>>
    /\ visited_urls = {c.start_url}
    /\ found_image_srcs = {}
    /\ downloaded_image_hashes = {}
    /\ pages_crawled = 0
    /\ total_images_downloaded = 0
    /\ files = {}
    /\ image_update_queue = <<>>
    /\ robot_parsers = <<>>
    /\ paused = FALSE
    /\ stopped = FALSE
    /\ current = NoEntry
    /\ interactive_images = {}
    /\ imgs_done = 0
    /\ links_done = 0
    /\ page_status = ""
    /\ seed_links = <<>>
    /\ fetched = <<>>
    /\ dequeued = <<>>
    /\ browser_fetched = <<>>
    /\ attempted = EmptyBag
    /\ last_image = NoImage
    /\ robots_reads = <<>>

\* The state in which scrape_site starts its work.
InitRun(c, e) ==
    /\ RunState(c, e, "start")
    /\ probe = NoProbe

Init == \E c \in Configs({Seed}) : InitRun(c, CrawlEnv)

Next ==
    \/ StartRun
    \/ BrowserFor
    \/ BrowserImage
    \/ LoopTest
    \/ WaitIfPaused
    \/ Sleep
    \/ StopCheck
    \/ Pop
    \/ RobotsCheck
    \/ LoopBodyRaises
    \/ FetchPage
    \/ ProcessImage
    \/ EndImages
    \/ ProcessLink
    \/ EndLinks
    \/ Finally
    \/ Control

Spec == Init /\ [][Next]_vars

\* The steps of the crawl thread, which the scheduler runs whenever it can.
CrawlStep ==
    \/ StartRun
    \/ BrowserFor
    \/ BrowserImage
    \/ LoopTest
    \/ WaitIfPaused
    \/ Sleep
    \/ StopCheck
    \/ Pop
    \/ RobotsCheck
    \/ LoopBodyRaises
    \/ FetchPage
    \/ ProcessImage
    \/ EndImages
    \/ ProcessLink
    \/ EndLinks
    \/ Finally

\* The crawl with a fairly scheduled crawl thread; the callers of the
\* control object are under no obligation.
SpecLive == Init /\ [][Next]_vars /\ WF_vars(CrawlStep)

\* The same run on a site with few pages and many kinds of image tags.
InitImages == \E c \in ImageConfigs : InitRun(c, ImageEnv)

SpecImages == InitImages /\ [][Next]_vars

(***************************************************************************)
(* The same run on sites whose pages are fixed, with a network and a disk  *)
(* that never fail and a robots.txt that allows everything.                *)
(***************************************************************************)
Page(imgs, links) == [imgs |-> imgs, links |-> links]
To(path, text) == Link(PageUrl("a", path, ""), text, "", "")
Img(path) == Src(ImgUrl(path, <<>>, ""))

\* The site of test_scrape_site_basic: two images and a link on the seed,
\* one image on the linked page.
SiteBasic ==
    (Seed :> Page(<<Img("/img1.png"), Img("/img2.jpg")>>, <<To("/page2", "next")>>))
    @@ (PageUrl("a", "/page2", "") :> Page(<<Img("/img3.gif")>>, <<>>))

\* Six pages: the seed links to /p (pagination) and /o; /p to /q
\* (pagination); /q and /o both to /r; /r to /s.
SiteDeep ==
    (Seed :> Page(<<Img("/a.jpg")>>, <<To("/p", "next"), To("/o", "about")>>))
    @@ (PageUrl("a", "/p", "") :> Page(<<>>, <<To("/q", "next")>>))
    @@ (PageUrl("a", "/q", "") :> Page(<<>>, <<To("/r", "more")>>))
    @@ (PageUrl("a", "/o", "") :> Page(<<>>, <<To("/r", "more")>>))
    @@ (PageUrl("a", "/r", "") :> Page(<<>>, <<To("/s", "last")>>))
    @@ (PageUrl("a", "/s", "") :> Page(<<Img("/s.jpg")>>, <<>>))

Sites == {SiteBasic, SiteDeep}

SiteEnv(site) ==
    [links |-> {}, imgs |-> {}, browser_imgs |-> {site[Seed].imgs[1].url},
     hashes |-> {}, rules |-> {{}},
     site |-> site, page_outcomes |-> {"html"}, reliable |-> TRUE]

SiteConfigs ==
    [start_url : {Seed}, max_pages : 1..SiteMaxPages, depth : 0..SiteMaxDepth,
     follow_pagination : BOOLEAN, use_browser : BOOLEAN, has_queue : {TRUE}]

InitSite == \E c \in SiteConfigs : \E site \in Sites : InitRun(c, SiteEnv(site))

SpecSite == InitSite /\ [][Next]_vars

(***************************************************************************)
(* The same run on a site whose anchors are of every kind the link loop    *)
(* tells apart, started from the seed URL with and without a fragment.     *)
(***************************************************************************)
Anchor(host, path, frag, text) == Link(PageUrl(host, path, frag), text, "", "")

\* The seed links to another host, to /o, to /p (pagination, written with a
\* fragment), to a file download and to itself with a fragment; /o links to
\* /p and /r; /p to /q (pagination).  The seed, /o and /q carry an image.
SiteMixed ==
    (Seed :> Page(<<Img("/a.jpg")>>,
                  <<Anchor("b", "/n", "", "partner"),
                    Anchor("a", "/o", "", "about"),
                    Anchor("a", "/p", "x", "next"),
                    Anchor("a", "/d.pdf", "", "manual"),
                    Anchor("a", "/", "top", "home")>>))
    @@ (PageUrl("a", "/o", "") :> Page(<<Img("/o.jpg")>>,
                                       <<To("/p", "products"), To("/r", "more")>>))
    @@ (PageUrl("a", "/p", "") :> Page(<<>>, <<To("/q", "next")>>))
    @@ (PageUrl("a", "/q", "") :> Page(<<Img("/q.jpg")>>, <<>>))
    @@ (PageUrl("a", "/r", "") :> Page(<<>>, <<>>))

\* The seed as the caller may write it: with a fragment.
SeedTop == PageUrl("a", "/", "top")

LinksConfigs ==
    [start_url : {Seed, SeedTop}, max_pages : 1..LinksMaxPages,
     depth : 0..LinksMaxDepth, follow_pagination : BOOLEAN,
     use_browser : BOOLEAN, has_queue : {TRUE}]

InitLinks == \E c \in LinksConfigs : InitRun(c, SiteEnv(SiteMixed))

SpecLinks == InitLinks /\ [][Next]_vars

\* The same crawl with a fairly scheduled crawl thread.
SpecLinksLive == InitLinks /\ [][Next]_vars /\ WF_vars(CrawlStep)

(***************************************************************************)
(* clean_image_url called on its own, twice in a row.                      *)
(***************************************************************************)
IdleConfig ==
    [start_url |-> Seed, max_pages |-> 0, depth |-> 0,
     follow_pagination |-> TRUE, use_browser |-> FALSE, has_queue |-> FALSE]

Fields == {Field(k, v) : k \in RawKeys, v \in RawVals}

CleanInputs ==
    [host : ImgHosts, path : Paths, query : SeqsUpTo(Fields, MaxQueryLen),
     frag : Frags]

InitClean ==
    /\ RunState(IdleConfig, CrawlEnv, "idle")
    /\ \E url \in CleanInputs :
          probe = [op |-> "clean", calls |-> 0, url |-> url, once |-> url,
                   twice |-> url]

\* once = clean_image_url(url)
CleanOnce ==
    /\ probe.op = "clean"
    /\ probe.calls = 0
    /\ probe' = [probe EXCEPT !.calls = 1, !.once = clean_image_url(probe.url)]
    /\ UNCHANGED <<cfg, env, pc, phase, raised, crawlVars, imageVars,
                   pageVars, controlVars, robotVars, image_update_queue,
                   interactive_images, browser_fetched>>

\* twice = clean_image_url(once)
CleanTwice ==
    /\ probe.op = "clean"
    /\ probe.calls = 1
    /\ probe' = [probe EXCEPT !.calls = 2, !.twice = clean_image_url(probe.once)]
    /\ UNCHANGED <<cfg, env, pc, phase, raised, crawlVars, imageVars,
                   pageVars, controlVars, robotVars, image_update_queue,
                   interactive_images, browser_fetched>>

NextClean == CleanOnce \/ CleanTwice

SpecClean == InitClean /\ [][NextClean]_vars

(***************************************************************************)
(* can_fetch called on its own for URLs of two origins.                    *)
(***************************************************************************)
RobotUrls == {PageUrl(h, p, "") : h \in {"a", "b"}, p \in {"/", "/n"}}

InitRobots ==
    /\ RunState(IdleConfig, CrawlEnv, "idle")
    /\ probe = [op |-> "can_fetch", calls |-> 0, url |-> Seed,
                answer |-> TRUE, failed |-> {}]

\* answer = can_fetch(url); failed collects the origins whose robots.txt
\* read raised.
CanFetchCall ==
    /\ probe.op = "can_fetch"
    /\ probe.calls < MaxRobotsQueries
    /\ \E url \in RobotUrls :
       \E readOutcome \in {ReadRaises} \cup {ReadRules(r) : r \in env.rules} :
          LET r == can_fetch(url, readOutcome)
              wasRead == Len(r.reads) > Len(robots_reads)
          IN  /\ robot_parsers' = r.parsers
              /\ robots_reads' = r.reads
              /\ probe' = [probe EXCEPT
                              !.calls = @ + 1,
                              !.url = url,
                              !.answer = r.answer,
                              !.failed = IF wasRead /\ readOutcome.raises
                                         THEN @ \cup {Netloc(url)} ELSE @]
    /\ UNCHANGED <<cfg, env, pc, phase, raised, crawlVars, imageVars,
                   pageVars, controlVars, image_update_queue,
                   interactive_images, browser_fetched>>

NextRobots == CanFetchCall

SpecRobots == InitRobots /\ [][NextRobots]_vars

(***************************************************************************)
(* The ScrapeControl object on its own, called from two threads, with its  *)
(* lock: every method is "with self._lock:" around its reads and writes.   *)
(***************************************************************************)
Threads == {"t1", "t2"}
Methods == {"pause", "resume", "stop", "is_paused", "is_stopped"}

\* A thread outside every method.
Outside == [m |-> "", at |-> "idle", got |-> FALSE]

InitControl ==
    /\ RunState(IdleConfig, CrawlEnv, "idle")
    /\ probe = [op |-> "control", calls |-> 0, lock |-> "",
                th |-> [t \in Threads |-> Outside]]

ControlFrame ==
    UNCHANGED <<cfg, env, pc, phase, raised, crawlVars, imageVars, pageVars,
                robotVars, image_update_queue, interactive_images,
                browser_fetched>>

\* Thread t calls a method of the control object.
Call(t) ==
    /\ probe.op = "control"
    /\ probe.th[t].at = "idle"
    /\ probe.calls < MaxControlCalls
    /\ \E m \in Methods :
          probe' = [probe EXCEPT !.calls = @ + 1,
                                 !.th[t] = [m |-> m, at |-> "acquire", got |-> FALSE]]
    /\ UNCHANGED controlVars
    /\ ControlFrame

\* A variant that enters without the lock.
AcquireUnlocked(t) ==
    /\ probe.op = "control"
    /\ probe.th[t].at = "acquire"
    /\ probe' = [probe EXCEPT !.th[t].at = "body"]
    /\ UNCHANGED controlVars
    /\ ControlFrame

\* with self._lock: t waits until the lock is free and takes it.
Acquire(t) ==
    /\ probe.op = "control"
    /\ probe.th[t].at = "acquire"
    /\ probe.lock = ""
    /\ probe' = [probe EXCEPT !.lock = t, !.th[t].at = "body"]
    /\ UNCHANGED controlVars
    /\ ControlFrame

\* The first statement under the lock: lines 39, 44, 49, 55 and 59.
Body(t) ==
    /\ probe.op = "control"
    /\ probe.th[t].at = "body"
    /\ LET m == probe.th[t].m
       IN  /\ paused' = CASE m = "pause" -> TRUE
                           [] m = "resume" -> FALSE
                           [] OTHER -> paused
           /\ stopped' = IF m = "stop" THEN TRUE ELSE stopped
           /\ probe' = [probe EXCEPT
                           !.th[t].at = IF m = "stop" THEN "body2" ELSE "release",
                           !.th[t].got = CASE m = "is_paused" -> paused
                                           [] m = "is_stopped" -> stopped
                                           [] OTHER -> FALSE]
    /\ ControlFrame

\* Line 50: the second assignment of stop.
Body2(t) ==
    /\ probe.op = "control"
    /\ probe.th[t].at = "body2"
    /\ paused' = FALSE
    /\ UNCHANGED stopped
    /\ probe' = [probe EXCEPT !.th[t].at = "release"]
    /\ ControlFrame

\* The end of the with block: the lock is released and the method returns.
Release(t) ==
    /\ probe.op = "control"
    /\ probe.th[t].at = "release"
    /\ probe' = [probe EXCEPT
                    !.lock = IF @ = t THEN "" ELSE @,
                    !.th[t] = Outside]
    /\ UNCHANGED controlVars
    /\ ControlFrame

NextControl ==
    \E t \in Threads :
        Call(t) \/ Acquire(t) \/ Body(t) \/ Body2(t) \/ Release(t)

SpecControl == InitControl /\ [][NextControl]_vars

(***************************************************************************)
(* The image loop at the grain of single requests: the tags of one page,   *)
(* one after the other, each download variant a step of its own (the for   *)
(* statement of try_get_high_res_image, lines 168-181).                    *)
(***************************************************************************)
TagCands ==
    {Src(ImgUrl("/a.jpg", <<>>, "")),
     Src(ImgUrl("/a.jpg", <<Field("w", "1")>>, "")),
     Src(ImgUrl("/b_300x200.jpg", <<Field("id", "1")>>, "")),
     Src(ImgUrl("/logo.png", <<>>, "")),
     Src(ImgUrl("/v.svg", <<Field("w", "1")>>, "")),
     Src(ImgUrl("/v_10x10.svg", <<Field("id", "1"), Field("w", "1")>>, "")),
     NoSrc}

TagEnv ==
    [links |-> {}, imgs |-> TagCands, browser_imgs |-> {},
     hashes |-> {"h1", "h2"}, rules |-> {{}},
     site |-> <<>>, page_outcomes |-> {"html"}, reliable |-> FALSE]

TagConfig == [IdleConfig EXCEPT !.has_queue = TRUE]

\* Between two tags: nothing in hand.
NoTag ==
    [src |-> NoSrc, key |-> NoSrc.url, ladder |-> <<>>, i |-> 0,
     requests |-> <<>>, res |-> ""]

InitTag ==
    /\ RunState(TagConfig, TagEnv, "idle")
    /\ probe = [op |-> "tag", at |-> "idle", tags |-> 0, t |-> NoTag]

TagFrame ==
    UNCHANGED <<cfg, env, pc, phase, raised, crawlVars, pageVars, controlVars,
                robotVars, interactive_images, browser_fetched>>

\* Lines 321-366 and 129-165: the next tag of the page, up to the call of
\* try_get_high_res_image and the list of variants it builds.
TagStart ==
    /\ probe.op = "tag"
    /\ probe.at = "idle"
    /\ probe.tags < MaxTags
    /\ \E tag \in env.imgs :
          LET abs_img_url == tag.url
              is_svg == IsSvg(abs_img_url)
              cleaned_img_url == IF is_svg THEN abs_img_url
                                 ELSE clean_image_url(abs_img_url)
              skipped == [NoTag EXCEPT !.src = tag, !.res = "skipped"]
          IN  IF ~tag.src \/ IconSkipped(abs_img_url)
              THEN /\ probe' = [probe EXCEPT !.tags = @ + 1, !.t = skipped]
                   /\ UNCHANGED <<imageVars, image_update_queue>>
              ELSE IF AlreadyProcessed(cleaned_img_url)
              THEN /\ probe' = [probe EXCEPT
                                   !.tags = @ + 1,
                                   !.t = [skipped EXCEPT !.key = cleaned_img_url]]
                   /\ last_image' =
                          Logged(cleaned_img_url, "already processed")
                   /\ UNCHANGED <<found_image_srcs, downloaded_image_hashes,
                                  total_images_downloaded, files, attempted,
                                  image_update_queue>>
              ELSE /\ found_image_srcs' = found_image_srcs \cup {cleaned_img_url}
                   /\ attempted' = attempted (+) SetToBag({cleaned_img_url})
                   /\ probe' = [probe EXCEPT
                                   !.tags = @ + 1,
                                   !.at = "ladder",
                                   !.t = [src |-> tag, key |-> cleaned_img_url,
                                          ladder |-> urls_to_try(cleaned_img_url),
                                          i |-> 1, requests |-> <<>>,
                                          res |-> ""]]
                   /\ UNCHANGED <<downloaded_image_hashes,
                                  total_images_downloaded, files, last_image,
                                  image_update_queue>>
    /\ TagFrame

\* Lines 168-181: session.get of the next variant; a RequestException goes
\* on to the one after it, an answer ends the for statement.
Attempt ==
    /\ probe.op = "tag"
    /\ probe.at = "ladder"
    /\ probe.t.i <= Len(probe.t.ladder)
    /\ \E answered \in BOOLEAN :
          probe' = [probe EXCEPT
                       !.t.requests = Append(@, probe.t.ladder[probe.t.i]),
                       !.t.i = IF answered THEN @ ELSE @ + 1,
                       !.t.res = IF answered THEN "got" ELSE "",
                       !.at = IF answered THEN "save" ELSE "ladder"]
    /\ UNCHANGED <<imageVars, image_update_queue>>
    /\ TagFrame

\* Lines 183-184 and 368-370: every variant failed; (None, None) comes
\* back and the tag is given up.
AllFailed ==
    /\ probe.op = "tag"
    /\ probe.at = "ladder"
    /\ probe.t.i > Len(probe.t.ladder)
    /\ probe' = [probe EXCEPT !.at = "idle", !.t.res = "failed"]
    /\ StoreImage(probe.t.key, [k |-> 0, hash |-> "", written |-> FALSE])
    /\ UNCHANGED <<found_image_srcs, attempted>>
    /\ TagFrame

\* Lines 372-436: the answer is read, compared by digest and written.
Save ==
    /\ probe.op = "tag"
    /\ probe.at = "save"
    /\ probe' = [probe EXCEPT !.at = "idle"]
    /\ \E h \in env.hashes, w \in BOOLEAN :
          StoreImage(probe.t.key, [k |-> probe.t.i, hash |-> h, written |-> w])
    /\ UNCHANGED <<found_image_srcs, attempted>>
    /\ TagFrame

NextTag == TagStart \/ Attempt \/ AllFailed \/ Save

SpecTag == InitTag /\ [][NextTag]_vars

(***************************************************************************)
(* Runs one after the other against the same site and the same output      *)
(* directory: every call of scrape_site makes its own frontier and dedup   *)
(* sets (lines 220-227), the directory keeps its files.  The caller is the *)
(* command line: no control object, no browser provider.                   *)
(***************************************************************************)
\* The seed shows a.jpg under two URLs and a_1.jpg, and links to /o, which
\* shows a.jpg again.
SiteNames ==
    (Seed :> Page(<<Img("/a.jpg"),
                    Src(ImgUrl("/a.jpg", <<Field("id", "1")>>, "")),
                    Img("/a_1.jpg")>>,
                  <<To("/o", "about")>>))
    @@ (PageUrl("a", "/o", "") :> Page(<<Img("/a.jpg")>>, <<>>))

\* The network and the disk never fail and every path serves content of
\* its own, or requests and writes can fail and the content varies.
RunsEnv(reliable) ==
    [SiteEnv(SiteNames) EXCEPT !.reliable = reliable, !.hashes = {"h1", "h2"}]

RunsConfigs ==
    [start_url : {Seed}, max_pages : {ImgMaxPages}, depth : {1},
     follow_pagination : {TRUE}, use_browser : {FALSE}, has_queue : BOOLEAN]

\* What is kept of the run before: nothing of it reaches the next call.
NoRun == [stopped |-> FALSE, raised |-> FALSE, count |-> 0,
          attempted |-> EmptyBag]

InitRuns ==
    \E c \in RunsConfigs, reliable \in BOOLEAN :
        /\ RunState(c, RunsEnv(reliable), "start")
        /\ probe = [op |-> "runs", n |-> 1, before |-> {}, prev |-> NoRun]

\* A variant that carries the digests over to the next run.
InitialHashesKept(previous) == previous

\* Line 223: downloaded_image_hashes = set().
InitialHashes(previous) == {}

\* scrape_site is called again with the same arguments once the run before
\* has returned or raised: lines 220-227 make the frontier, the visited
\* set, the dedup sets and the counters anew and the caller hands over an
\* empty queue; the files stay, and so does the robots cache, a global of
\* the module.
Rerun ==
    /\ probe.op = "runs"
    /\ pc \in {"done", "raised"}
    /\ probe.n < MaxRuns
    /\ probe' = [probe EXCEPT
                    !.n = @ + 1,
                    !.before = files,
                    !.prev = [stopped |-> stopped, raised |-> raised,
                              count |-> total_images_downloaded,
                              attempted |-> attempted]]
    /\ pc' = "start"
    /\ phase' = "crawl"
    /\ raised' = FALSE
    /\ urls_to_visit' = <<Entry(cfg.start_url, 0)>>
    /\ visited_urls' = {cfg.start_url}
    /\ found_image_srcs' = {}
    /\ downloaded_image_hashes' = InitialHashes(downloaded_image_hashes)
    /\ pages_crawled' = 0
    /\ total_images_downloaded' = 0
    /\ image_update_queue' = <<>>
    /\ paused' = FALSE
    /\ stopped' = FALSE
    /\ current' = NoEntry
    /\ interactive_images' = {}
    /\ imgs_done' = 0
    /\ links_done' = 0
    /\ page_status' = ""
    /\ seed_links' = <<>>
    /\ fetched' = <<>>
    /\ dequeued' = <<>>
    /\ browser_fetched' = <<>>
    /\ attempted' = EmptyBag
    /\ last_image' = NoImage
    /\ robots_reads' = <<>>
    /\ UNCHANGED <<cfg, env, files, robot_parsers>>

NextRuns ==
    \/ StartRun
    \/ LoopTest
    \/ WaitIfPaused
    \/ StopCheck
    \/ Pop
    \/ RobotsCheck
    \/ LoopBodyRaises
    \/ FetchPage
    \/ ProcessImage
    \/ EndImages
    \/ ProcessLink
    \/ EndLinks
    \/ Finally
    \/ Rerun

SpecRuns == InitRuns /\ [][NextRuns]_vars

(***************************************************************************)
(* The run on the mixed site with a caller that notes, when its first stop *)
(* call returns, where the crawl thread was and what it had done.          *)
(***************************************************************************)
InitStop ==
    \E c \in LinksConfigs :
        /\ RunState(c, SiteEnv(SiteMixed), "start")
        /\ probe = [op |-> "stop", called |-> FALSE, at |-> "", pages |-> 0]

\* pause, resume or stop is called from another thread; stop is a call of
\* ScrapeControl.stop (lines 47-51), after which the caller notes the
\* position of the crawl thread and its page counter.
ControlNoted ==
    /\ pc \notin {"idle", "done", "raised"}
    /\ \/ (pause \/ resume) /\ UNCHANGED probe
       \/ /\ stop
          /\ probe' = IF probe.called THEN probe
                       ELSE [probe EXCEPT !.called = TRUE, !.at = pc,
                                          !.pages = pages_crawled]
    /\ UNCHANGED <<crawlVars, imageVars, pageVars, robotVars, cfg, env, pc,
                   phase, raised, image_update_queue, interactive_images,
                   browser_fetched>>

NextStop ==
    \/ StartRun
    \/ BrowserFor
    \/ BrowserImage
    \/ LoopTest
    \/ WaitIfPaused
    \/ Sleep
    \/ StopCheck
    \/ Pop
    \/ RobotsCheck
    \/ LoopBodyRaises
    \/ FetchPage
    \/ ProcessImage
    \/ EndImages
    \/ ProcessLink
    \/ EndLinks
    \/ Finally
    \/ ControlNoted

SpecStop == InitStop /\ [][NextStop]_vars

(***************************************************************************)
(* The web application (app.py): scrape requests that each start a         *)
(* background thread around scrape_site, the control requests, and a       *)
(* stream consumer, all sharing the module's queue and the global          *)
(* current_scrape_control.  scrape_site is taken at the grain of its       *)
(* try/finally skeleton (lines 207-227, 282-305 and 502-509).              *)
(***************************************************************************)
RunIds == 1..MaxRequests

\* An item of the shared queue with the run that put it.
AppItem(r, kind) == [kind |-> kind, run |-> r]

\* A background thread that has not been started.
NoThread ==
    [at |-> "none", paused |-> FALSE, stopped |-> FALSE, raised |-> FALSE,
     left |-> 0, nones |-> 0]

NoStream == [open |-> FALSE, since |-> 0, from |-> {}]

InitApp ==
    /\ RunState(IdleConfig, CrawlEnv, "idle")
    /\ probe = [op |-> "app", handler |-> "idle", requests |-> 0,
                control |-> 0, stop_at |-> 0,
                run |-> [r \in RunIds |-> NoThread], stream |-> NoStream]

AppFrame ==
    UNCHANGED <<cfg, env, pc, phase, raised, crawlVars, imageVars, pageVars,
                controlVars, robotVars, interactive_images, browser_fetched>>

\* handle_scrape_request, lines 43-49: the queue is emptied.
ScrapeClear ==
    /\ probe.op = "app"
    /\ probe.handler = "idle"
    /\ probe.requests < MaxRequests
    /\ image_update_queue' = <<>>
    /\ probe' = [probe EXCEPT !.handler = "cleared"]
    /\ AppFrame

\* handle_scrape_request, lines 51-80: a payload that is refused ends the
\* request with status 400 and starts nothing.
ScrapeReject ==
    /\ probe.op = "app"
    /\ probe.handler = "cleared"
    /\ probe' = [probe EXCEPT !.handler = "idle"]
    /\ UNCHANGED image_update_queue
    /\ AppFrame

\* handle_scrape_request, lines 82-96: a new ScrapeControl becomes the
\* current one and the background thread is started.
ScrapeStart ==
    /\ probe.op = "app"
    /\ probe.handler = "cleared"
    /\ LET r == probe.requests + 1
       IN  probe' = [probe EXCEPT
                        !.handler = "idle",
                        !.requests = r,
                        !.control = r,
                        !.run[r] = [NoThread EXCEPT !.at = "setup",
                                                    !.left = MaxFinds]]
    /\ UNCHANGED image_update_queue
    /\ AppFrame

\* scrape_site, lines 207-227, called at line 105 of app.py: urlparse of
\* the seed or os.makedirs raises, before the try statement of line 282, or
\* the frontier is made.
RunSetup(r) ==
    /\ probe.op = "app"
    /\ probe.run[r].at = "setup"
    /\ \E raises \in BOOLEAN :
          probe' = [probe EXCEPT
                       !.run[r].at = IF raises THEN "except" ELSE "loop",
                       !.run[r].raised = raises]
    /\ UNCHANGED image_update_queue
    /\ AppFrame

\* Lines 283-288: the while condition and the control check.  The thread
\* waits while its control object is paused and leaves the loop when it is
\* stopped or when frontier or budget are used up.
RunLoopTest(r) ==
    /\ probe.op = "app"
    /\ probe.run[r].at = "loop"
    /\ ~probe.run[r].paused
    /\ probe' = [probe EXCEPT
                    !.run[r].at = IF probe.run[r].stopped \/ probe.run[r].left = 0
                                  THEN "finally" ELSE "body"]
    /\ UNCHANGED image_update_queue
    /\ AppFrame

\* Lines 290-500: one page.  It gives an image, which is put on the queue
\* (line 436), or none; or a statement outside the inner try (lines
\* 290-304) raises and the exception leaves the loop.
RunBody(r) ==
    /\ probe.op = "app"
    /\ probe.run[r].at = "body"
    /\ \E outcome \in {"image", "nothing", "raises"} :
          /\ probe' = [probe EXCEPT
                          !.run[r].left = @ - 1,
                          !.run[r].raised = (outcome = "raises"),
                          !.run[r].at = IF outcome = "raises" THEN "finally"
                                        ELSE "loop"]
          /\ image_update_queue' =
                 IF outcome = "image"
                 THEN Append(image_update_queue, AppItem(r, "image"))
                 ELSE image_update_queue
    /\ AppFrame

\* Lines 502-509: the finally clause puts None; then scrape_site returns
\* or the exception goes on to the caller.
RunFinally(r) ==
    /\ probe.op = "app"
    /\ probe.run[r].at = "finally"
    /\ image_update_queue' = Append(image_update_queue, AppItem(r, "None"))
    /\ probe' = [probe EXCEPT
                    !.run[r].nones = @ + 1,
                    !.run[r].at = IF probe.run[r].raised THEN "except"
                                  ELSE "end"]
    /\ AppFrame

\* run_scrape_background, lines 117-121: the except clause puts None.
RunExcept(r) ==
    /\ probe.op = "app"
    /\ probe.run[r].at = "except"
    /\ image_update_queue' = Append(image_update_queue, AppItem(r, "None"))
    /\ probe' = [probe EXCEPT !.run[r].nones = @ + 1, !.run[r].at = "end"]
    /\ AppFrame

\* pause_scrape, resume_scrape and stop_scrape, lines 123-151: the method
\* is called on current_scrape_control, when there is one.
ControlRequest ==
    /\ probe.op = "app"
    /\ probe.control # 0
    /\ \E m \in {"pause", "resume", "stop"} :
          LET r == probe.control
          IN  probe' = [probe EXCEPT
                           !.run[r].paused = (m = "pause"),
                           !.run[r].stopped = (@ \/ m = "stop"),
                           !.stop_at = IF m = "stop" THEN probe.requests
                                       ELSE @]
    /\ UNCHANGED image_update_queue
    /\ AppFrame

\* stream_image_updates, lines 182-188: a consumer opens the stream.
StreamConnect ==
    /\ probe.op = "app"
    /\ ~probe.stream.open
    /\ probe.handler = "idle"
    /\ probe.requests > 0
    /\ probe' = [probe EXCEPT
                    !.stream = [open |-> TRUE, since |-> probe.requests,
                                from |-> {}]]
    /\ UNCHANGED image_update_queue
    /\ AppFrame

\* Lines 190-199: image_update_queue.get(); None ends the stream.
StreamRead ==
    /\ probe.op = "app"
    /\ probe.stream.open
    /\ image_update_queue # <<>>
    /\ LET item == Head(image_update_queue)
       IN  probe' = [probe EXCEPT
                        !.stream.from = @ \cup {item.run},
                        !.stream.open = (item.kind # "None")]
    /\ image_update_queue' = Tail(image_update_queue)
    /\ AppFrame

NextApp ==
    \/ ScrapeClear
    \/ ScrapeReject
    \/ ScrapeStart
    \/ \E r \in RunIds : RunSetup(r)
    \/ \E r \in RunIds : RunLoopTest(r)
    \/ \E r \in RunIds : RunBody(r)
    \/ \E r \in RunIds : RunFinally(r)
    \/ \E r \in RunIds : RunExcept(r)
    \/ ControlRequest
    \/ StreamConnect
    \/ StreamRead

SpecApp == InitApp /\ [][NextApp]_vars

(***************************************************************************)
(* Properties of the run.                                                  *)
(***************************************************************************)
\* Position of the first occurrence of x in seq, 0 when absent.
IndexOf(seq, x) ==
    IF x \in Range(seq)
    THEN CHOOSE i \in 1..Len(seq) : seq[i] = x /\ \A j \in 1..(i - 1) : seq[j] # x
    ELSE 0

Finished == pc \in {"done", "raised"}

EndSignalCount ==
    Cardinality({i \in 1..Len(image_update_queue) :
                    image_update_queue[i] = EndSignal})

ImageEventCount ==
    Cardinality({i \in 1..Len(image_update_queue) :
                    image_update_queue[i].kind = "image"})

\* C1: a run with a queue has put no end signal while it is running and
\* exactly one once it has returned or raised, however the loop ended.
C1_ExactlyOneEndSignal ==
    cfg.has_queue => EndSignalCount = (IF Finished THEN 1 ELSE 0)

\* The run ended by an exception out of the loop body, after an image event.
C1_Witness ==
    /\ cfg.has_queue
    /\ pc = "raised"
    /\ EndSignalCount = 1
    /\ ImageEventCount >= 1

\* C2: the end signal is the last item of the queue: nothing is put after it.
C2_EndSignalIsLast ==
    \A i \in 1..Len(image_update_queue) :
        image_update_queue[i] = EndSignal => i = Len(image_update_queue)

\* A stopped run with the browser phase on whose image event precedes the
\* end signal.
C2_Witness ==
    /\ pc = "done"
    /\ stopped
    /\ cfg.use_browser
    /\ ImageEventCount >= 1
    /\ image_update_queue[Len(image_update_queue)] = EndSignal

\* C3: the loop dequeues at most max_pages pages, skipped ones included, and
\* fetches at most that many distinct pages.
C3_PageBound ==
    /\ pages_crawled <= cfg.max_pages
    /\ Len(dequeued) = pages_crawled
    /\ Len(fetched) <= pages_crawled
    /\ Cardinality(Range(fetched)) <= cfg.max_pages

\* The budget of two pages is used up although the seed links to two more
\* pages of its own domain.
C3_Witness ==
    /\ pc = "done"
    /\ cfg.max_pages = 2
    /\ Len(fetched) = 2
    /\ {PageUrl("a", "/n", ""), PageUrl("a", "/o", "")}
           \subseteq {l.url : l \in Range(seed_links)}

\* The robots check of the seed was made and allowed it.
SeedAllowedByRobots ==
    /\ base_domain \in DOMAIN robot_parsers
    /\ CachedAnswer(robot_parsers, cfg.start_url)

\* C4: with depth 0 nothing but the seed is ever fetched, and a run with
\* max_pages >= 1 whose robots check allowed the seed has fetched exactly
\* that one page when it returns.
C4_DepthZeroOnlySeed ==
    cfg.depth = 0 =>
        /\ Len(fetched) <= 1
        /\ \A i \in 1..Len(fetched) : fetched[i] = cfg.start_url
        /\ (pc = "done" /\ cfg.max_pages >= 1 /\ SeedAllowedByRobots)
               => fetched = <<cfg.start_url>>

\* A finished depth-0 run with room for more pages that fetched the seed and
\* handled its image tags.
C4_Witness ==
    /\ cfg.depth = 0
    /\ cfg.max_pages >= 2
    /\ pc = "done"
    /\ fetched = <<cfg.start_url>>
    /\ imgs_done >= 1

\* C5: at most one file per content digest; a download whose digest is
\* already known writes no file, counts nothing and emits nothing, so files,
\* digests, the saved count and the image events stay in step and no file
\* name is reused.
C5_ContentDedup ==
    /\ \A f, g \in files : (f.hash = g.hash \/ f.name = g.name) => f = g
    /\ {f.hash : f \in files} = downloaded_image_hashes
    /\ Cardinality(files) = total_images_downloaded
    /\ cfg.has_queue => ImageEventCount = total_images_downloaded

\* Two distinct URLs delivered the same bytes: one was saved, the other
\* discarded, and there is one file and one event.
C5_Witness ==
    /\ cfg.has_queue
    /\ last_image.result = "duplicate"
    /\ \E f \in files :
          /\ files = {f}
          /\ f.name.base # Basename(last_image.url)
    /\ Cardinality(found_image_srcs) = 2
    /\ ImageEventCount = 1

\* C6: every canonical URL is handed to the download ladder at most once in
\* a run, and only URLs recorded as processed are.
C6_ReferenceDedup ==
    /\ \A u \in BagToSet(attempted) : CopiesIn(u, attempted) = 1
    /\ BagToSet(attempted) \subseteq found_image_srcs

\* A URL tried on the first page without yielding a file was met again as
\* the first image of the second page and skipped.
C6_Witness ==
    /\ pages_crawled = 2
    /\ pc = "images"
    /\ imgs_done = 1
    /\ last_image.result = "already processed"
    /\ CopiesIn(last_image.url, attempted) = 1
    /\ files = {}
    /\ ~cfg.use_browser

\* The crawlable anchors of the seed page are p, pagination, and o,
\* ordinary, and they lead to two different pages.
SeedHasPair(p, o) ==
    /\ Range(seed_links) = {p, o}
    /\ is_pagination(p)
    /\ ~is_pagination(o)
    /\ Crawlable(p)
    /\ Crawlable(o)
    /\ StripFragment(p.url) # StripFragment(o.url)

\* x occurs in seq and y does not occur before it.
Precedes(seq, x, y) ==
    /\ x \in Range(seq)
    /\ y \in Range(seq) => IndexOf(seq, x) < IndexOf(seq, y)

\* C7 as stated: with follow_pagination on, when the ordinary link of such a
\* seed page has been fetched, the pagination link was fetched before it.
C7_PaginationFetchedFirst ==
    \A p, o \in env.links :
        (cfg.follow_pagination /\ SeedHasPair(p, o)
            /\ StripFragment(o.url) \in Range(fetched))
        => Precedes(fetched, StripFragment(p.url), StripFragment(o.url))

\* C7 amended: with follow_pagination on and max_pages >= 3, when the
\* ordinary link of such a seed page has been dequeued, the pagination link
\* was dequeued before it.
C7_PaginationDequeuedFirst ==
    \A p, o \in env.links :
        (cfg.follow_pagination /\ cfg.max_pages >= 3 /\ SeedHasPair(p, o)
            /\ StripFragment(o.url) \in Range(dequeued))
        => Precedes(dequeued, StripFragment(p.url), StripFragment(o.url))

\* The ordinary link came first in the page and was dequeued last.
C7_Witness ==
    /\ cfg.follow_pagination
    /\ cfg.max_pages >= 3
    /\ \E p, o \in env.links :
          /\ SeedHasPair(p, o)
          /\ seed_links = <<o, p>>
          /\ dequeued = <<cfg.start_url, StripFragment(p.url), StripFragment(o.url)>>

\* The robots check of the seed was made and refused it.
SeedDisallowedByRobots ==
    /\ base_domain \in DOMAIN robot_parsers
    /\ ~CachedAnswer(robot_parsers, cfg.start_url)

\* C8: when robots.txt disallows the seed, the run loads no page, neither
\* by session.get nor through the browser provider, saves nothing and does
\* not raise.
C8_RobotsCompliance ==
    SeedDisallowedByRobots =>
        /\ fetched = <<>>
        /\ browser_fetched = <<>>
        /\ files = {}
        /\ total_images_downloaded = 0
        /\ pc # "raised"

C10_CleanIdempotent ==
    (probe.op = "clean" /\ probe.calls = 2) => probe.twice = probe.once

\* A URL that lost parameters, kept at least two fields and was cleaned
\* twice.
C10_Witness ==
    /\ probe.op = "clean"
    /\ probe.calls = 2
    /\ Len(probe.once.query) >= 2
    /\ Len(probe.once.query) < Len(probe.url.query)

\* The decoded (name, value) pairs of a query string, in order.
Decoded(query) ==
    [i \in 1..Len(query) |-> Field(Unquote(query[i].k), Unquote(query[i].v))]

\* C11: the cleaned URL keeps the path, and its query is the input query
\* without the fields whose name is in the fixed set, every other field kept
\* with its value, repeated keys and empty values included, in input order.
C11_RemovesFixedSetKeepsRest ==
    (probe.op = "clean" /\ probe.calls >= 1 /\ ~UrlParseRaises(probe.url)) =>
        /\ probe.once.path = probe.url.path
        /\ Decoded(probe.once.query) =
               SelectSeq(Decoded(probe.url.query),
                         LAMBDA f : f.k \notin params_to_remove)

\* The pages an anchor of page u leads to: same host, no file download.
Targets(u) ==
    {StripFragment(l.url) :
        l \in {x \in Range(env.site[u].links) :
                  /\ Netloc(x.url) = base_domain
                  /\ ~IsFileDownload(StripFragment(x.url))}}

\* The pages at link distance at most d from the pages of S.
RECURSIVE WithinDistance(_, _)
WithinDistance(S, d) ==
    IF d = 0 THEN S
    ELSE WithinDistance(S \cup UNION {Targets(u) : u \in S \cap DOMAIN env.site},
                        d - 1)

PagesInReach == WithinDistance({cfg.start_url}, cfg.depth)

\* The canonical URLs of the images of the pages in reach.
ImagesInReach ==
    {IF IsSvg(t.url) THEN t.url ELSE clean_image_url(t.url) :
        t \in UNION {{x \in Range(env.site[u].imgs) : x.src} :
                        u \in PagesInReach \cap DOMAIN env.site}}

\* C12: on a fixed site with a reliable network, a run without browser
\* assist that was not stopped and whose budget covers the pages within
\* depth link distance of the seed has fetched exactly those pages when it
\* returns, and its count is the number of their distinct images.
C12_CrawlCompleteness ==
    (/\ DOMAIN env.site # {}
     /\ pc = "done"
     /\ ~stopped
     /\ ~cfg.use_browser
     /\ Cardinality(PagesInReach) <= cfg.max_pages)
    => /\ Range(fetched) = PagesInReach
       /\ pages_crawled = Cardinality(PagesInReach)
       /\ total_images_downloaded = Cardinality(ImagesInReach)

\* A step taken from the page fetch, an image tag or an anchor stays in the
\* loop and raises nothing.
StaysInLoop ==
    pc \in {"fetch", "images", "links"}
        => (~raised' /\ pc' \in {pc, "images", "links", "loop"})

\* A page that was not parsed is back at the while condition with no
\* exception propagating.
SkippedPageContinues ==
    page_status \in {"RequestException", "HTTPError", "non-html"}
        => (pc = "loop" /\ ~raised)

\* C13: no step of the page fetch, of an image tag or of an anchor leaves
\* the loop or raises: after it the crawl thread is at the next tag, the
\* next anchor or the while condition.  A page that was not parsed is back
\* at the while condition with no exception propagating, and a run that
\* returned did not raise.
C13_FailuresAreSkips ==
    /\ []SkippedPageContinues
    /\ [](pc = "done" => ~raised)
    /\ [][StaysInLoop]_vars

\* A page fetch has just failed, after every download variant of an image of
\* an earlier page had failed, and the frontier still holds a page within
\* the budget.
C13_Witness ==
    /\ pc = "loop"
    /\ page_status = "RequestException"
    /\ last_image.result = "failed"
    /\ pages_crawled = 2
    /\ urls_to_visit # <<>>
    /\ pages_crawled < cfg.max_pages

\* What the method of thread t has achieved when it returns.
Postcondition(t) ==
    LET m == probe.th[t].m
    IN  /\ m = "pause" => paused
        /\ m = "resume" => ~paused
        /\ m = "stop" => (stopped /\ ~paused)
        /\ m = "is_paused" => probe.th[t].got = paused
        /\ m = "is_stopped" => probe.th[t].got = stopped

\* Only the holder of the lock is inside a with block.
LockHeld ==
    \A t \in Threads :
        probe.th[t].at \in {"body", "body2", "release"} => probe.lock = t

StoppedStays == stopped => stopped'

\* C14: as a method returns, pause has set paused, resume has cleared it,
\* stop has set stopped and cleared paused, and a read returns the current
\* flag; nothing runs under the lock but its holder; stopped never goes
\* back to false.
C14_ControlTransitions ==
    /\ [](probe.op = "control" =>
             /\ LockHeld
             /\ \A t \in Threads : probe.th[t].at = "release" => Postcondition(t))
    /\ [][StoppedStays]_vars

\* stop is about to return while the other thread waits for the lock with a
\* pause.
C14_Witness ==
    /\ probe.op = "control"
    /\ probe.th["t1"] = [m |-> "stop", at |-> "release", got |-> FALSE]
    /\ probe.th["t2"].m = "pause"
    /\ probe.th["t2"].at = "acquire"
    /\ stopped
    /\ ~paused

\* C15: outside the methods' with blocks a stopped control is not paused:
\* once stop has returned, no later call changes {paused = false,
\* stopped = true}.
C15_StopIsFinal ==
    (probe.op = "control" /\ probe.lock = "" /\ stopped) => ~paused

\* C16: whenever the control is stopped, the run eventually ends with the
\* end signal on the queue.
C16_StopTerminates ==
    stopped ~> (Finished /\ EndSignalCount = 1)

\* The image events of the queue, as a set of file names.
EventNames ==
    {image_update_queue[i].name :
        i \in {j \in 1..Len(image_update_queue) :
                  image_update_queue[j].kind = "image"}}

\* A step that puts an image event puts one, for a file that this step
\* wrote and counted.
EventFollowsWrite ==
    ImageEventCount' # ImageEventCount =>
        /\ ImageEventCount' = ImageEventCount + 1
        /\ total_images_downloaded' = total_images_downloaded + 1
        /\ \E f \in files' \ files :
              /\ files' = files \cup {f}
              /\ image_update_queue' =
                     Append(image_update_queue, ImageEvent(f.name))

\* C17: in a run with a queue every image event names a file of the output
\* directory, no two events name the same file, every step that puts an
\* event has just written that file, and when the run has ended the events,
\* the returned count and the files written are equal in number.
C17_OneEventPerSavedImage ==
    /\ [](cfg.has_queue =>
             /\ EventNames \subseteq FileNames
             /\ Cardinality(EventNames) = ImageEventCount
             /\ Finished =>
                    /\ ImageEventCount = total_images_downloaded
                    /\ ImageEventCount = Cardinality(files))
    /\ [][EventFollowsWrite]_vars

\* A finished run with a queue that saved two images and discarded a third
\* download as a duplicate.
C17_Witness ==
    /\ cfg.has_queue
    /\ pc = "done"
    /\ ImageEventCount = 2
    /\ total_images_downloaded = 2
    /\ Cardinality(files) = 2
    /\ last_image.result = "duplicate"

\* C18 as stated: a page answered with a non-2xx status or with a content
\* type other than HTML sends the crawl thread back to the while condition;
\* its image tags and anchors are never handled.
C18_Non2xxContributesNothing ==
    page_status \in {"HTTPError", "3xx-html", "non-html"} => pc = "loop"

\* A step that fetches a page without parsing it changes nothing but the
\* record of the fetch: no image state, no frontier entry, no queue item;
\* the page stays visited and counted.
SkippedPageAddsNothing ==
    (pc = "fetch" /\ page_status' \in {"HTTPError", "non-html"}) =>
        /\ pc' = "loop"
        /\ UNCHANGED <<imageVars, urls_to_visit, visited_urls, pages_crawled,
                       image_update_queue>>
        /\ current.url \in visited_urls'
        /\ current.url \in Range(dequeued')

\* C18 amended: image tags and anchors are handled only for a page whose
\* response was HTML with a status that raise_for_status lets pass; a page
\* answered with a 4xx or 5xx status or another content type sends the
\* crawl thread back to the while condition, and the step that fetched it
\* leaves images, frontier, visited set, page counter and queue as they
\* were.
C18_SkippedPageContributesNothing ==
    /\ [](pc \in {"images", "links"} => page_status \in {"html", "3xx-html"})
    /\ [](page_status \in {"HTTPError", "non-html"} => pc = "loop")
    /\ [][SkippedPageAddsNothing]_vars

\* The second page of a run came back as something other than HTML, after
\* the first page had an image saved and queued the second; the frontier
\* still holds a page within the budget.
C18_Witness ==
    /\ pc = "loop"
    /\ page_status = "non-html"
    /\ pages_crawled = 2
    /\ Len(fetched) = 2
    /\ total_images_downloaded = 1
    /\ urls_to_visit # <<>>
    /\ pages_crawled < cfg.max_pages

QueuedUrls == {urls_to_visit[i].url : i \in 1..Len(urls_to_visit)}

\* A step that makes the frontier longer pushes one entry, at the front or
\* at the back, whose URL was neither visited nor queued, while visited and
\* queued together were fewer than max_pages.
PushIsAdmitted ==
    Len(urls_to_visit') > Len(urls_to_visit) =>
        \E e \in Range(urls_to_visit') :
            /\ urls_to_visit' \in {<<e>> \o urls_to_visit, Append(urls_to_visit, e)}
            /\ e.url \notin visited_urls
            /\ e.url \notin QueuedUrls
            /\ Cardinality(visited_urls) + Len(urls_to_visit) < cfg.max_pages

\* C19: an entry is pushed only when its URL is neither visited nor queued
\* and the budget has room; the frontier never holds a URL twice and never
\* holds a visited URL, the seed before its first pop excepted.
C19_FrontierAdmission ==
    /\ [](Cardinality(QueuedUrls) = Len(urls_to_visit))
    /\ [](\A u \in QueuedUrls \cap visited_urls :
              u = cfg.start_url /\ dequeued = <<>>)
    /\ [][PushIsAdmitted]_vars

\* Two links of the seed page were pushed and filled a budget of three; the
\* page's anchors are still being handled.
C19_Witness ==
    /\ pc = "links"
    /\ cfg.max_pages = 3
    /\ Len(urls_to_visit) = 2
    /\ visited_urls = {cfg.start_url}
    /\ links_done = 2

VisitedPlusQueued == Cardinality(visited_urls) + Len(urls_to_visit)

\* C20 as stated: visited and queued together are always fewer than
\* max_pages.
C20_CountBelowBudget == VisitedPlusQueued < cfg.max_pages

\* C20 amended: visited and queued together are two until the first pop,
\* the seed being in both, and at most max_pages from then on.
C20_CountWithinBudget ==
    /\ dequeued = <<>> => VisitedPlusQueued = 2
    /\ dequeued # <<>> => VisitedPlusQueued <= cfg.max_pages

\* After two pops the count equals a budget of three: two visited pages and
\* one queued.
C20_Witness ==
    /\ cfg.max_pages = 3
    /\ Len(dequeued) = 2
    /\ Cardinality(visited_urls) = 2
    /\ Len(urls_to_visit) = 1

\* A step that makes the frontier longer has put the entry of the anchor in
\* hand at the front when the anchor is a pagination link and
\* follow_pagination is set, and at the back otherwise, the entries already
\* queued keeping their order.
PushIsPlaced ==
    Len(urls_to_visit') > Len(urls_to_visit) =>
        \E link \in NextAnchors :
            LET e == Entry(StripFragment(link.url), current.depth + 1)
            IN  urls_to_visit' =
                    IF cfg.follow_pagination /\ is_pagination(link)
                    THEN <<e>> \o urls_to_visit
                    ELSE Append(urls_to_visit, e)

\* C21: an admitted link goes to the front of the frontier exactly when it
\* is a pagination link and follow_pagination is set, and to the back in
\* every other case; the entries already queued keep their order.
C21_PlacementRule == [][PushIsPlaced]_vars

\* With follow_pagination set, the pagination link of the seed page, met
\* after the ordinary one, stands in front of it.
C21_Witness ==
    /\ cfg.follow_pagination
    /\ pc = "links"
    /\ current.url = Seed
    /\ urls_to_visit = <<Entry(PageUrl("a", "/p", ""), 1),
                        Entry(PageUrl("a", "/o", ""), 1)>>

\* A step that makes the frontier longer is taken on a page below the depth
\* limit and pushes an entry one level deeper than that page.
PushIsOneDeeper ==
    Len(urls_to_visit') > Len(urls_to_visit) =>
        /\ current.depth < cfg.depth
        /\ \E e \in Range(urls_to_visit') :
              /\ e.depth = current.depth + 1
              /\ urls_to_visit' \in {<<e>> \o urls_to_visit, Append(urls_to_visit, e)}

\* The image loop of a page of a fixed site is left only when every tag of
\* the page has been handled, whatever the depth of the page.
ImagesHandledFirst ==
    (pc = "images" /\ pc' # "images" /\ OnSite) =>
        imgs_done = Len(env.site[Served].imgs)

\* C22: links of a page at depth d are pushed with depth d + 1 and only if
\* d is below the depth limit; no frontier entry and no page in hand is
\* deeper than the limit; the anchors of a page at the limit are never
\* looked at, while its image tags are all handled.
C22_DepthRule ==
    /\ [](\A e \in Range(urls_to_visit) : e.depth <= cfg.depth)
    /\ [](current.depth <= cfg.depth)
    /\ [](pc = "links" => current.depth < cfg.depth)
    /\ [][PushIsOneDeeper]_vars
    /\ [][ImagesHandledFirst]_vars

\* With a depth limit of 1, page /o at depth 1 had its image saved and is
\* done; its link to /r was not pushed although the budget has room.
C22_Witness ==
    /\ cfg.depth = 1
    /\ current = Entry(PageUrl("a", "/o", ""), 1)
    /\ pc = "loop"
    /\ page_status = "html"
    /\ last_image = Logged(ImgUrl("/o.jpg", <<>>, ""), "saved")
    /\ PageUrl("a", "/r", "") \notin QueuedUrls \cup visited_urls
    /\ HasRoom

\* The page taken from the frontier is at least as deep as the one taken
\* before it.
PopsNoShallower == pc = "pop" => current'.depth >= current.depth

\* C23 as stated: the depths of the pages dequeued never decrease, whatever
\* follow_pagination is.
C23_BreadthFirst == [][PopsNoShallower]_vars

PopsNoShallowerUnlessFront ==
    (pc = "pop" /\ ~cfg.follow_pagination) => current'.depth >= current.depth

\* The frontier is in depth order, and holds nothing shallower than the
\* page in hand and nothing more than one level deeper.
FrontierInDepthOrder ==
    /\ \A i, j \in 1..Len(urls_to_visit) :
          i <= j => urls_to_visit[i].depth <= urls_to_visit[j].depth
    /\ \A e \in Range(urls_to_visit) :
          current.depth <= e.depth /\ e.depth <= current.depth + 1

\* C23 amended: with follow_pagination off, the depths of the pages
\* dequeued never decrease and the frontier is in depth order.
C23_BreadthFirstWithoutPagination ==
    /\ [](~cfg.follow_pagination => FrontierInDepthOrder)
    /\ [][PopsNoShallowerUnlessFront]_vars

\* With follow_pagination off, the seed, /o, /p and /r were dequeued in
\* that order, /r at depth 2, and /q at depth 2 is still queued.
C23_Witness ==
    /\ ~cfg.follow_pagination
    /\ dequeued = <<Seed, PageUrl("a", "/o", ""), PageUrl("a", "/p", ""),
                    PageUrl("a", "/r", "")>>
    /\ current.depth = 2
    /\ urls_to_visit = <<Entry(PageUrl("a", "/q", ""), 2)>>

\* C24: every URL in the frontier, every page in hand and every page
\* passed to session.get has the host of the seed URL.
C24_SingleDomain ==
    /\ \A e \in Range(urls_to_visit) : Netloc(e.url) = Netloc(cfg.start_url)
    /\ \A u \in visited_urls \cup Range(dequeued) \cup Range(fetched) :
          Netloc(u) = Netloc(cfg.start_url)
    /\ pc \notin {"start", "bfor", "bimg"} /\ dequeued # <<>>
          => Netloc(current.url) = Netloc(cfg.start_url)

\* The anchors of the seed page, the one to host b included, have all been
\* handled with room left in the budget, and the crawl has gone on to /o.
C24_Witness ==
    /\ Seed \in DOMAIN env.site
    /\ \E a \in Range(env.site[Seed].links) : Netloc(a.url) = "b"
    /\ cfg.start_url = Seed
    /\ cfg.max_pages = LinksMaxPages
    /\ PageUrl("a", "/o", "") \in Range(fetched)
    /\ pc = "images"

\* C25: every URL of the visited set and of the frontier is without
\* fragment, and no two page fetches of a run ask for URLs that differ only
\* in their fragment.
C25_FragmentStripped ==
    /\ \A u \in visited_urls \cup QueuedUrls : u = StripFragment(u)
    /\ \A i, j \in 1..Len(fetched) :
          StripFragment(fetched[i]) = StripFragment(fetched[j]) => i = j

\* The places of the ladder that a requested URL u can stand for, in a call
\* of try_get_high_res_image on url: 1 the canonical URL, 2 its path
\* without size suffix, 3 to 5 the quality, w and size variants, 6 url as
\* given.
Kinds(u, url) ==
    LET c == clean_image_url(url)
    IN  {k \in 1..6 :
            \/ k = 1 /\ u = c
            \/ k = 2 /\ HasSizeSuffix(c.path)
                     /\ u = [c EXCEPT !.path = StripSizeSuffix(@)]
            \/ k = 3 /\ u = Variant(c, "quality", "100")
            \/ k = 4 /\ u = Variant(c, "w", "2048")
            \/ k = 5 /\ u = Variant(c, "size", "large")
            \/ k = 6 /\ u = url}

\* The requests begin with the canonical URL, go up the ladder and never
\* repeat a URL.
InLadderOrder(requests, url) ==
    /\ requests # <<>> => 1 \in Kinds(requests[1], url)
    /\ \A i, j \in 1..Len(requests) :
          i < j => /\ requests[i] # requests[j]
                   /\ \E a \in Kinds(requests[i], url),
                         b \in Kinds(requests[j], url) : a < b

\* Every variant that exists for url was requested.
WholeLadderTried(requests, url) ==
    LET c == clean_image_url(url)
    IN  /\ {c, url} \subseteq Range(requests)
        /\ HasSizeSuffix(c.path) =>
               [c EXCEPT !.path = StripSizeSuffix(@)] \in Range(requests)
        /\ c.query # <<>> =>
               {Variant(c, "quality", "100"), Variant(c, "w", "2048"),
                Variant(c, "size", "large")} \subseteq Range(requests)

\* A request is made only while no variant has answered.
RequestsStopAtAnswer ==
    (probe.op = "tag" /\ Len(probe'.t.requests) > Len(probe.t.requests)) =>
        /\ probe.t.res = ""
        /\ Len(probe'.t.requests) = Len(probe.t.requests) + 1

\* C26: the variants of one image are requested in the order canonical
\* URL, path without size suffix, quality, w, size, URL as given, none of
\* them twice; the variant that answers is the one returned and nothing is
\* requested after it; when the result is (None, None) every variant was
\* requested.
C26_LadderOrder ==
    /\ [](probe.op = "tag" =>
             /\ InLadderOrder(probe.t.requests, probe.t.key)
             /\ probe.t.res = "got" =>
                    probe.t.ladder[probe.t.i]
                        = probe.t.requests[Len(probe.t.requests)]
             /\ probe.t.res = "failed" =>
                    WholeLadderTried(probe.t.requests, probe.t.key))
    /\ [][RequestsStopAtAnswer]_vars

\* All six variants of an image were requested and failed.
C26_Witness ==
    /\ probe.op = "tag"
    /\ probe.t.res = "failed"
    /\ Len(probe.t.requests) = 6
    /\ \A k \in 1..6 : k \in Kinds(probe.t.requests[k], probe.t.key)

\* C27: when every variant has failed for a tag whose URL as written in the
\* page differs from its canonical URL, the URL as written was among the
\* requests.
C27_OriginalIsLastResort ==
    (probe.op = "tag" /\ probe.t.res = "failed"
        /\ probe.t.src.url # clean_image_url(probe.t.src.url))
    => probe.t.src.url \in Range(probe.t.requests)

\* C28: for a tag with an SVG URL the dedup key is the URL as written, and
\* the first request, when there is one, asks for that URL.
C28_SvgBypassesCleaning ==
    (probe.op = "tag" /\ probe.t.src.src /\ IsSvg(probe.t.src.url)) =>
        /\ probe.t.key = probe.t.src.url
        /\ probe.t.requests # <<>> => probe.t.requests[1] = probe.t.src.url

\* C29: the canonical URL is without fragment, so that a URL and the same
\* URL without its fragment have one canonical form.
C29_CanonicalHasNoFragment ==
    (probe.op = "clean" /\ probe.calls >= 1 /\ ~UrlParseRaises(probe.url)) =>
        /\ probe.once.frag = ""
        /\ probe.once = clean_image_url([probe.url EXCEPT !.frag = ""])

\* The step that meets a tag whose URL matches the icon pattern leaves the
\* processed-URL set, the digests, the files, the counter and the queue as
\* they were and starts no download.
IconTagChangesNothing ==
    (/\ probe.op = "tag"
     /\ probe'.tags = probe.tags + 1
     /\ probe'.t.src.src
     /\ COMMON_ICON_PATTERNS(probe'.t.src.url))
    => /\ UNCHANGED <<imageVars, image_update_queue>>
       /\ probe'.at = "idle"
       /\ probe'.t.ladder = <<>>

\* C30: a tag whose URL matches the icon pattern is passed over before any
\* request: nothing is requested for it, and the step leaves the
\* processed-URL set, the digests, the files, the saved count and the queue
\* unchanged; no URL that matches the pattern is ever in the processed set
\* or handed to the ladder.
C30_IconsAreDiscarded ==
    /\ [](probe.op = "tag" =>
             /\ COMMON_ICON_PATTERNS(probe.t.src.url) => probe.t.requests = <<>>
             /\ \A u \in found_image_srcs \cup BagToSet(attempted) :
                   ~COMMON_ICON_PATTERNS(u))
    /\ [][IconTagChangesNothing]_vars

\* The second tag of the page matched the icon pattern and was passed over,
\* after the first had been saved.
C30_Witness ==
    /\ probe.op = "tag"
    /\ probe.tags = 2
    /\ COMMON_ICON_PATTERNS(probe.t.src.url)
    /\ probe.t.res = "skipped"
    /\ total_images_downloaded = 1
    /\ Cardinality(found_image_srcs) = 1

\* Every file of the directory has a name of its own.
NamesDistinct == Cardinality(FileNames) = Cardinality(files)

\* A step that writes keeps every file there was and adds one file, under
\* the name of the URL when that name is unused, else under the first
\* unused one of name_1, name_2, ...
SaveKeepsFiles ==
    /\ files \subseteq files'
    /\ files' # files =>
          \E n \in 0..Cardinality(files) :
             LET img_filename == FileName(Basename(last_image'.url), n)
             IN  /\ {f.name : f \in files' \ files} = {img_filename}
                 /\ Cardinality(files' \ files) = 1
                 /\ img_filename \notin FileNames
                 /\ \A m \in 0..(n - 1) :
                       FileName(Basename(last_image'.url), m) \in FileNames

\* C31: a save never overwrites a file of the output directory: on a
\* collision the name gets the suffix _1, _2, ... until it is unused, so the
\* files saved in a run and those present before it keep distinct names.
C31_NoOverwrite == []NamesDistinct /\ [][SaveKeepsFiles]_vars

\* The second run has saved a.jpg while a.jpg and a_1.jpg were there from
\* the first: its name is a_2.jpg.
C31_Witness ==
    /\ probe.op = "runs"
    /\ probe.n = 2
    /\ last_image.result = "saved"
    /\ Basename(last_image.url) = "/a.jpg"
    /\ {FileName("/a.jpg", 0), FileName("/a_1.jpg", 0)}
           \subseteq {f.name : f \in probe.before}
    /\ FileName("/a.jpg", 2) \in FileNames
    /\ FileName("/a.jpg", 2) \notin {f.name : f \in probe.before}

\* The crawl thread is about to fetch, or has just passed over, the page it
\* dequeued: the cache holds the answer of the robots check for it.
RobotsAnswer ==
    /\ Netloc(current.url) \in DOMAIN robot_parsers
    /\ CachedAnswer(robot_parsers, current.url)

\* session.get is reached from the robots check of the same page only, and
\* a page is fetched only from there.
FetchFollowsRobots ==
    /\ (pc' = "fetch" /\ pc # "fetch") => (pc = "robots" /\ current' = current)
    /\ fetched' # fetched =>
          (pc = "fetch" /\ fetched' = Append(fetched, current.url))

\* The step that refuses a page leaves it visited and counted, touches
\* neither images nor frontier nor queue and goes back to the while
\* condition.
RefusedPageIsSkipped ==
    (pc = "robots" /\ pc' \notin {"robots", "fetch"} /\ ~raised') =>
        /\ pc' = "loop"
        /\ ~CachedAnswer(robot_parsers', current.url)
        /\ current.url \in visited_urls'
        /\ dequeued[Len(dequeued)] = current.url
        /\ pages_crawled = Len(dequeued)
        /\ UNCHANGED <<crawlVars, imageVars, pageVars, image_update_queue>>

\* Tags and anchors are handled, and the answer of a fetch is held, only
\* for a page that was fetched after the robots check allowed it.
ProcessedPageWasAllowed ==
    (pc \in {"images", "links"} \/ page_status # "") =>
        /\ fetched # <<>>
        /\ fetched[Len(fetched)] = current.url
        /\ RobotsAnswer

\* C32: a page is fetched only after the robots check of the same iteration
\* allowed its URL; a refused page stays visited and counted, none of its
\* images or links is processed, and the loop goes on with the next entry.
C32_RobotsGate ==
    /\ [](pc = "fetch" => RobotsAnswer)
    /\ []ProcessedPageWasAllowed
    /\ [][FetchFollowsRobots]_vars
    /\ [][RefusedPageIsSkipped]_vars

\* The second page of the run was refused after the seed had been fetched,
\* and the frontier holds a further entry within the budget.
C32_Witness ==
    /\ pc = "loop"
    /\ pages_crawled = 2
    /\ fetched = <<cfg.start_url>>
    /\ current.url # cfg.start_url
    /\ Netloc(current.url) \in DOMAIN robot_parsers
    /\ ~CachedAnswer(robot_parsers, current.url)
    /\ current.url \in visited_urls
    /\ urls_to_visit # <<>>
    /\ pages_crawled < cfg.max_pages

\* C33: an image URL of the browser provider goes through the pipeline of
\* the page images: whatever URL is in the processed-URL set, be it from
\* the provider or from a page, has been handed to the download ladder.
C33_BrowserImagesPipelined ==
    \A img_url \in found_image_srcs : BagIn(img_url, attempted)

\* The files the current run has written.
RunSaved == files \ probe.before

\* A call of scrape_site starts with the seed as the only visited URL and
\* with empty dedup sets, whatever the directory holds.
StartsEmpty ==
    pc = "start" =>
        /\ visited_urls = {cfg.start_url}
        /\ found_image_srcs = {}
        /\ downloaded_image_hashes = {}

\* The digests of the run are those of the files the run has written.
HashesOfThisRun == downloaded_image_hashes = {f.hash : f \in RunSaved}

\* On a site and a network that answer the same way every time, a run that
\* returns after an earlier run returned has asked for the same images,
\* has saved as many, and each of its files repeats the content of an
\* earlier file under a name with a collision suffix.
SecondRunRepeats ==
    (probe.n >= 2 /\ env.reliable /\ pc = "done" /\ ~probe.prev.raised) =>
        /\ attempted = probe.prev.attempted
        /\ total_images_downloaded = probe.prev.count
        /\ Cardinality(RunSaved) = total_images_downloaded
        /\ \A f \in RunSaved :
              /\ f.name.n >= 1
              /\ \E g \in probe.before : g.hash = f.hash /\ g.name # f.name

\* C34: the visited set, the processed-URL set and the digest set belong to
\* the run: a second run against the same site and directory downloads the
\* same images again and saves them under collision-suffixed names.
C34_DedupIsRunScoped ==
    probe.op = "runs" =>
        /\ StartsEmpty
        /\ HashesOfThisRun
        /\ SecondRunRepeats

\* The second run has returned with two images saved, as the first had,
\* and the directory holds four files.
C34_Witness ==
    /\ probe.op = "runs"
    /\ probe.n = 2
    /\ env.reliable
    /\ pc = "done"
    /\ ~probe.prev.raised
    /\ probe.prev.count = 2
    /\ total_images_downloaded = 2
    /\ Cardinality(files) = 4
    /\ Cardinality(visited_urls) = 2

\* The crawl thread is inside wait_if_paused and has read, or is about to
\* read, paused = True.
HeldByPause == pc = "sleep" \/ (pc = "wait" /\ paused)

\* What a run has collected and what it has still to do.
RunData ==
    <<crawlVars, imageVars, pageVars, robotVars, image_update_queue,
      interactive_images, browser_fetched>>

\* A step taken while the thread is held leaves frontier, visited set,
\* dedup sets, files and queue as they are and keeps the thread in
\* wait_if_paused; the thread leaves it only by reading paused = False,
\* that is after resume or stop.
HeldStepChangesNothing ==
    /\ HeldByPause => (UNCHANGED RunData /\ pc' \in {"wait", "sleep"})
    /\ (pc \in {"wait", "sleep"} /\ pc' \notin {"wait", "sleep"}) =>
          (pc = "wait" /\ ~paused /\ pc' = "stopchk" /\ UNCHANGED RunData)

\* The pause flag is read at the control check only: the page in hand goes
\* on whatever the flag, its fetch, its tags and its anchors.
PageInHandGoesOn ==
    (paused /\ pc \in {"fetch", "images", "links"}) =>
        ENABLED (FetchPage \/ ProcessImage \/ EndImages \/ ProcessLink
                     \/ EndLinks)

\* After the wait the entry dequeued is the head the frontier had.
HeadIsDequeued ==
    (pc = "pop" /\ pc' # "pop") =>
        (current' = Head(urls_to_visit) /\ urls_to_visit' = Tail(urls_to_visit))

\* C35: once the control check has read paused = True the crawl thread
\* dequeues nothing, fetches nothing and leaves frontier, visited set,
\* dedup sets, files and queue unchanged until resume or stop; a pause that
\* arrives while a page is in hand lets that page finish, and after the
\* wait the crawl goes on with the same frontier head.
C35_PauseHolds ==
    /\ []PageInHandGoesOn
    /\ [][HeldStepChangesNothing]_vars
    /\ [][HeadIsDequeued]_vars

\* The thread sleeps in wait_if_paused after the seed page gave an image
\* and two frontier entries.
C35_Witness ==
    /\ pc = "sleep"
    /\ paused
    /\ phase = "crawl"
    /\ pages_crawled = 1
    /\ total_images_downloaded = 1
    /\ Len(urls_to_visit) = 2

\* C36: a background scrape that has ended, by return or by exception, has
\* put exactly one None on the shared queue.
C36_OneEndSignalPerScrape ==
    probe.op = "app" =>
        \A r \in RunIds : probe.run[r].at = "end" => probe.run[r].nones = 1

\* While the run that was started last is the one the consumer connected
\* after, everything the consumer has read was put by that run.
StreamIsOfLatestRun ==
    (probe.stream.since > 0 /\ probe.stream.since = probe.requests) =>
        probe.stream.from \subseteq {probe.stream.since}

\* After a stop request, and until the next scrape request, every thread
\* that has not ended has its stop flag set.
StopStopsEveryRun ==
    (probe.stop_at > 0 /\ probe.stop_at = probe.requests) =>
        \A r \in RunIds :
            probe.run[r].at \notin {"none", "end"} => probe.run[r].stopped

\* C37: after a scrape request has cleared the queue and started its run,
\* what a stream consumer reads up to and including the next None was put
\* by that run, also when an earlier thread is still crawling; and a stop
\* request stops every run that is still crawling.
C37_StreamBelongsToRun ==
    probe.op = "app" => (StreamIsOfLatestRun /\ StopStopsEveryRun)

\* From the first pop on the page counter is the size of the visited set
\* and visited and queued URLs together stay within the budget.
CounterIsVisited ==
    (cfg.max_pages >= 1 /\ current # NoEntry) =>
        /\ pages_crawled = Cardinality(visited_urls)
        /\ VisitedPlusQueued <= cfg.max_pages

\* The while condition of line 283 ends the loop on an empty frontier only.
ExitOnEmptyFrontier ==
    (cfg.max_pages >= 1 /\ pc = "loop" /\ pc' = "finally") =>
        urls_to_visit = <<>>

\* C38: for maxPages >= 1 the loop, when it is not left by a stop, is left
\* with an empty frontier: the page counter is the size of the visited set
\* after the first pop and admission keeps visited plus queued within
\* maxPages, so the budget is never used up while an entry is queued.
C38_BudgetNeverStrands ==
    /\ []CounterIsVisited
    /\ [][ExitOnEmptyFrontier]_vars

\* The loop has ended on a used-up budget of three pages with an empty
\* frontier, no stop and no exception.
C38_Witness ==
    /\ pc = "finally"
    /\ ~stopped
    /\ ~raised
    /\ cfg.max_pages = 3
    /\ pages_crawled = cfg.max_pages
    /\ urls_to_visit = <<>>
    /\ cfg.depth = 2

\* Every popleft of the frontier counts a page.
PopCounts == (pc = "pop" /\ pc' # "pop") => pages_crawled' = pages_crawled + 1

\* After the stop call the thread dequeues one entry when its control
\* check had come before the call, and none otherwise.
OneMoreAtMost ==
    probe.called =>
        /\ pages_crawled <= probe.pages + 1
        /\ probe.at # "pop" => pages_crawled = probe.pages

\* After the stop call an image event is put only for the page in hand.
EventsOfPageInHand ==
    (probe.called /\ Len(image_update_queue') > Len(image_update_queue)) =>
        \/ pc = "finally"
        \/ pc = "images" /\ pages_crawled <= probe.pages + 1

\* C39: after a stop call has returned the crawl thread dequeues at most
\* one further entry, the one whose control check came before the stop,
\* whatever the interleaving, and puts no event for a page dequeued later.
C39_StopBoundsDequeues ==
    /\ []OneMoreAtMost
    /\ [][PopCounts]_vars
    /\ [][EventsOfPageInHand]_vars

\* The stop call came between the control check and popleft; the thread
\* has dequeued that one entry, put an event for its image and left the
\* loop with two entries still queued.
C39_Witness ==
    /\ probe.op = "stop"
    /\ probe.called
    /\ probe.at = "pop"
    /\ probe.pages = 1
    /\ pages_crawled = 2
    /\ total_images_downloaded = 2
    /\ pc = "done"
    /\ Len(urls_to_visit) = 2

\* The entries pushed so far: those queued and those dequeued, less the
\* seed entry the frontier starts with.
Pushes == Len(urls_to_visit) + pages_crawled - 1

\* The count moves only when the link loop pushes, and then by one entry;
\* a popleft leaves it alone, since every entry dequeued counts a page.
PushIsOne ==
    (Len(urls_to_visit') > Len(urls_to_visit) \/ Pushes' # Pushes) =>
        /\ pc = "links"
        /\ Len(urls_to_visit') = Len(urls_to_visit) + 1
        /\ Pushes' = Pushes + 1

\* An iteration that passes the control check removes one entry.
IterationPops ==
    (pc = "pop" /\ pc' # "pop") =>
        (urls_to_visit # <<>> /\ Len(urls_to_visit') = Len(urls_to_visit) - 1)

\* C40: a run that is not left paused for ever ends, whatever the budget
\* and the links of the site: every iteration removes a frontier entry and
\* the pushes of a run number at most maxPages.
C40_Termination ==
    /\ [](Pushes \in 0..cfg.max_pages)
    /\ [][PushIsOne]_vars
    /\ [][IterationPops]_vars
    /\ (<>[]~paused) => <>Finished

\* The run has returned without a stop, the budget of three pages used
\* up and two entries pushed.
C40_Witness ==
    /\ pc = "done"
    /\ cfg.max_pages = 3
    /\ pages_crawled = 3
    /\ Pushes = 2
    /\ ~stopped

====
